---- MODULE Spec2Model ----
(***************************************************************************)
(* A model of lurk-rs' LEM constraint synthesis (src/src/lem/circuit.rs)   *)
(* and of the field abstraction it rests on (src/src/field.rs).            *)
(*                                                                         *)
(* Scale.  TLC's integers are 32 bits wide, the fields of the program are  *)
(* about 255 bits wide.  The model keeps the proportions of the program    *)
(* and shrinks the unit: a byte holds one bit (BYTE_BASE = 2), so that u16 *)
(* is 2 bits, u32 4 bits, u64 8 bits and u128 16 bits wide, and the field  *)
(* is the prime field of 2^17 - 1 elements, whose representation is 17     *)
(* bytes long.  As in the program, u128 values are field elements without  *)
(* reduction and the product of two u64 values does not wrap in the field. *)
(***************************************************************************)
EXTENDS Integers, Sequences, FiniteSets, TLC

VARIABLES fld, cache, sel, dr, syn, pair, tr, vp, sl

vars == <<fld, cache, sel, dr, syn, pair, tr, vp, sl>>

\* The value of a variable that the specification at hand does not use.
Idle == [pc |-> "idle"]

(***************************************************************************)
(* Option and panics                                                       *)
(***************************************************************************)
Some(x) == [k |-> "Some", v |-> x]
None == [k |-> "None", v |-> 0]
Panic == [k |-> "panic", v |-> 0]

RECURSIVE Pow(_, _)
Pow(b, e) == IF e = 0 THEN 1 ELSE b * Pow(b, e - 1)

Max(a, b) == IF a >= b THEN a ELSE b

(***************************************************************************)
(* The field (ff::PrimeField as LurkField uses it)                         *)
(***************************************************************************)
BYTE_BASE == 2
REPR_LEN == 17
MODULUS == 131071

F_ZERO == 0
F_ONE == 1

\* Integer byte widths of the program: u16, u32, u64, u128.
U16_BYTES == 2
U32_BYTES == 4
U64_BYTES == 8
U128_BYTES == 16

FAdd(a, b) == (a + b) % MODULUS
FSub(a, b) == (a + MODULUS - b) % MODULUS
FDouble(a) == FAdd(a, a)

\* a * b mod MODULUS without leaving TLC's 32-bit integers.
RECURSIVE FMul(_, _)
FMul(a, b) ==
  IF b = 0 THEN 0
  ELSE (a * (b % 256) + 256 * FMul(a, b \div 256)) % MODULUS

RECURSIVE FPow(_, _)
FPow(a, e) ==
  IF e = 0 THEN 1
  ELSE LET h == FPow(a, e \div 2)
           s == FMul(h, h)
       IN IF e % 2 = 1 THEN FMul(s, a) ELSE s

\* ff::Field::invert: None for zero.
FInvert(a) == IF a = 0 THEN None ELSE Some(FPow(a, MODULUS - 2))

\* Little-endian value of a byte string.
RECURSIVE LeValue(_)
LeValue(bs) ==
  IF bs = <<>> THEN 0 ELSE Head(bs) + BYTE_BASE * LeValue(Tail(bs))

\* PrimeField::to_repr: the canonical little-endian bytes of the element.
to_repr(f) == [i \in 1..REPR_LEN |-> (f \div Pow(BYTE_BASE, i - 1)) % BYTE_BASE]

\* PrimeField::from_repr: None when the bytes are not below the modulus.
from_repr(bs) == IF LeValue(bs) < MODULUS THEN Some(LeValue(bs)) ELSE None

\* A mutant: the bytes are written most significant first.
to_bytes_be(f) == [i \in 1..REPR_LEN |-> to_repr(f)[REPR_LEN + 1 - i]]

\* A mutant: the zero bytes at the end are dropped.
to_bytes_trimmed(f) ==
  SubSeq(to_repr(f), 1,
         IF f = 0 THEN 0
         ELSE CHOOSE n \in 1..REPR_LEN :
                to_repr(f)[n] # 0 /\ \A j \in (n + 1)..REPR_LEN : to_repr(f)[j] = 0)

\* LurkField::to_bytes
to_bytes(f) == to_repr(f)

\* u64::to_le_bytes
u64_to_le_bytes(x) == [i \in 1..U64_BYTES |-> (x \div Pow(BYTE_BASE, i - 1)) % BYTE_BASE]

\* LurkField::from_bytes: copy_from_slice panics on a slice of another length.
from_bytes(bs) == IF Len(bs) # REPR_LEN THEN Panic ELSE from_repr(bs)

\* u64 -> field (x.into()): reduction, which never happens for x < 2^64.
from_u64(x) == x % MODULUS

\* A mutant: the conversion drops the low bit.
to_u16_shifted(f) ==
  IF \E i \in (U16_BYTES + 1)..REPR_LEN : to_repr(f)[i] # 0
  THEN None
  ELSE Some(LeValue(SubSeq(to_repr(f), 2, U16_BYTES + 1)))

\* LurkField::to_u16
to_u16(f) ==
  IF \E i \in (U16_BYTES + 1)..REPR_LEN : to_repr(f)[i] # 0
  THEN None
  ELSE Some(LeValue(SubSeq(to_repr(f), 1, U16_BYTES)))

\* LurkField::to_u32
to_u32(f) ==
  IF \E i \in (U32_BYTES + 1)..REPR_LEN : to_repr(f)[i] # 0
  THEN None
  ELSE Some(LeValue(SubSeq(to_repr(f), 1, U32_BYTES)))

\* A mutant: the bytes are checked from the sixteenth on.
to_u64_loose(f) ==
  IF \E i \in (U128_BYTES + 1)..REPR_LEN : to_repr(f)[i] # 0
  THEN None
  ELSE Some(LeValue(SubSeq(to_repr(f), 1, U64_BYTES)))

\* LurkField::to_u64
to_u64(f) ==
  IF \E i \in (U64_BYTES + 1)..REPR_LEN : to_repr(f)[i] # 0
  THEN None
  ELSE Some(LeValue(SubSeq(to_repr(f), 1, U64_BYTES)))

\* LurkField::to_u128
to_u128(f) ==
  IF \E i \in (U128_BYTES + 1)..REPR_LEN : to_repr(f)[i] # 0
  THEN None
  ELSE Some(LeValue(SubSeq(to_repr(f), 1, U128_BYTES)))

\* LurkField::to_u32_unchecked: the first 4 bytes.
to_u32_unchecked(f) == LeValue(SubSeq(to_repr(f), 1, U32_BYTES))

\* LurkField::to_u64_unchecked: the first 8 bytes.
to_u64_unchecked(f) == LeValue(SubSeq(to_repr(f), 1, U64_BYTES))

\* LurkField::to_u128_unchecked: the first 16 bytes.
to_u128_unchecked(f) == LeValue(SubSeq(to_repr(f), 1, U128_BYTES))

\* LurkField::from_u32, from_u16: widened to u64, then into the field.
from_u32(x) == from_u64(x)
from_u16(x) == from_u64(x)

\* ff::PrimeField::from_u128
from_u128(x) == x % MODULUS

\* The integer types of the coercions and their widths in bytes.
UintBytes(w) ==
  CASE w = "u16" -> U16_BYTES
    [] w = "u32" -> U32_BYTES
    [] w = "u64" -> U64_BYTES
    [] w = "u128" -> U128_BYTES

ToUint(w, f) ==
  CASE w = "u16" -> to_u16(f)
    [] w = "u32" -> to_u32(f)
    [] w = "u64" -> to_u64(f)
    [] w = "u128" -> to_u128(f)

ToUintUnchecked(w, f) ==
  CASE w = "u32" -> to_u32_unchecked(f)
    [] w = "u64" -> to_u64_unchecked(f)
    [] w = "u128" -> to_u128_unchecked(f)

FromUint(w, x) ==
  CASE w = "u16" -> from_u16(x)
    [] w = "u32" -> from_u32(x)
    [] w = "u64" -> from_u64(x)
    [] w = "u128" -> from_u128(x)

(***************************************************************************)
(* The four tag enumerations (crate::tag).  A tag is #[repr(u16)]; the     *)
(* discriminants are scaled with u16.                                      *)
(***************************************************************************)
ExprTag == [Nil |-> 0, Cons |-> 1, Sym |-> 2, Fun |-> 3]
ContTag == [Outermost |-> 1, Call0 |-> 3]
Op1 == [Car |-> 2, Cdr |-> 3]
Op2 == [Sum |-> 0, Diff |-> 1, Product |-> 3]

\* u16::from(tag) / u64::from(tag)
TagInto(enum, tag) == enum[tag]

\* Enum::try_from(u16)
TagTryFrom(enum, x) ==
  IF \E t \in DOMAIN enum : enum[t] = x
  THEN Some(CHOOSE t \in DOMAIN enum : enum[t] = x)
  ELSE None

from_expr_tag(tag) == from_u64(TagInto(ExprTag, tag))
to_expr_tag(f) == IF to_u16(f).k = "None" THEN None ELSE TagTryFrom(ExprTag, to_u16(f).v)
from_cont_tag(tag) == from_u64(TagInto(ContTag, tag))
to_cont_tag(f) == IF to_u16(f).k = "None" THEN None ELSE TagTryFrom(ContTag, to_u16(f).v)
from_op1(tag) == from_u64(TagInto(Op1, tag))
to_op1(f) == IF to_u16(f).k = "None" THEN None ELSE TagTryFrom(Op1, to_u16(f).v)
from_op2(tag) == from_u64(TagInto(Op2, tag))
to_op2(f) == IF to_u16(f).k = "None" THEN None ELSE TagTryFrom(Op2, to_u16(f).v)

TagKinds == {"expr", "cont", "op1", "op2"}

TagsOf(kind) ==
  CASE kind = "expr" -> DOMAIN ExprTag
    [] kind = "cont" -> DOMAIN ContTag
    [] kind = "op1" -> DOMAIN Op1
    [] kind = "op2" -> DOMAIN Op2

FromTag(kind, tag) ==
  CASE kind = "expr" -> from_expr_tag(tag)
    [] kind = "cont" -> from_cont_tag(tag)
    [] kind = "op1" -> from_op1(tag)
    [] kind = "op2" -> from_op2(tag)

ToTag(kind, f) ==
  CASE kind = "expr" -> to_expr_tag(f)
    [] kind = "cont" -> to_cont_tag(f)
    [] kind = "op1" -> to_op1(f)
    [] kind = "op2" -> to_op2(f)

\* LurkField::most_positive: half of 0 - 1.
most_positive == FMul(FInvert(FAdd(F_ONE, F_ONE)).v, FSub(F_ZERO, F_ONE))

\* LurkField::most_negative
most_negative == FAdd(most_positive, F_ONE)

\* A mutant: odd as it stands.
is_negative_undoubled(f) == f % 2 = 1

\* LurkField::is_negative: odd after doubling.
is_negative(f) == FDouble(f) % 2 = 1

(***************************************************************************)
(* SpecField: the conversions of field.rs applied to field elements, byte  *)
(* strings and tags.                                                       *)
(***************************************************************************)
\* Elements within FieldWindow of 0, of the modulus and of each power of two.
FieldWindow == 2

FieldSample ==
  (0..FieldWindow)
    \cup ((MODULUS - 1 - FieldWindow)..(MODULUS - 1))
    \cup UNION {(Pow(2, i) - FieldWindow)..(Pow(2, i) + FieldWindow) :
                  i \in 2..(REPR_LEN - 1)}

\* Byte strings that are no element's encoding: the modulus itself, and slices
\* one byte short and one byte long.
RawBytes ==
  { [i \in 1..REPR_LEN |-> 1],
    [i \in 1..(REPR_LEN - 1) |-> 0],
    [i \in 1..(REPR_LEN + 1) |-> 0] }

FldState(pc, f, bytes, res, kind, tag, f2) ==
  [pc |-> pc, f |-> f, bytes |-> bytes, res |-> res, kind |-> kind, tag |-> tag,
   f2 |-> f2, x |-> 0]

\* The integers of a type within FieldWindow of 0, of its maximum and of each
\* power of two.
UintSample(w) ==
  { x \in FieldSample : x < Pow(BYTE_BASE, UintBytes(w)) }
    \cup ((Pow(BYTE_BASE, UintBytes(w)) - 1 - FieldWindow)..(Pow(BYTE_BASE, UintBytes(w)) - 1))

FldInit ==
  \/ \E f \in FieldSample : fld = FldState("elt", f, <<>>, None, "", "", 0)
  \/ \E bs \in RawBytes : fld = FldState("raw", 0, bs, None, "", "", 0)
  \/ \E kind \in TagKinds : \E t \in TagsOf(kind) :
       fld = FldState("tag", 0, <<>>, None, kind, t, 0)
  \/ \E w \in {"u16", "u32", "u64", "u128"} : \E x \in UintSample(w) :
       fld = [FldState("int", 0, <<>>, None, w, "", 0) EXCEPT !.x = x]

FldOthers == <<cache, sel, dr, syn, pair, tr, vp, sl>>

FldToBytes ==
  /\ fld.pc \in {"elt", "lifted"}
  /\ fld' = [fld EXCEPT !.pc = IF fld.pc = "elt" THEN "bytes" ELSE "liftedbytes",
                        !.bytes = to_bytes(fld.f)]
  /\ UNCHANGED FldOthers

FldFromBytes ==
  /\ fld.pc \in {"bytes", "raw"}
  /\ fld' = [fld EXCEPT !.pc = IF fld.pc = "raw" THEN "rawdecoded" ELSE "decoded",
                        !.res = from_bytes(fld.bytes)]
  /\ UNCHANGED FldOthers

FldFromTag ==
  /\ fld.pc = "tag"
  /\ fld' = [fld EXCEPT !.pc = "tagged", !.f = FromTag(fld.kind, fld.tag)]
  /\ UNCHANGED FldOthers

FldToTag ==
  /\ fld.pc = "tagged"
  /\ fld' = [fld EXCEPT !.pc = "untagged", !.res = ToTag(fld.kind, fld.f)]
  /\ UNCHANGED FldOthers

FldReTag ==
  /\ fld.pc = "untagged"
  /\ fld.res.k = "Some"
  /\ fld' = [fld EXCEPT !.pc = "retagged", !.f2 = FromTag(fld.kind, fld.res.v)]
  /\ UNCHANGED FldOthers

\* from_u16 .. from_u128 on an integer of the type
FldFromUint ==
  /\ fld.pc = "int"
  /\ fld' = [fld EXCEPT !.pc = "lifted", !.f = FromUint(fld.kind, fld.x)]
  /\ UNCHANGED FldOthers

\* to_u16 .. to_u128 on an element, or on the element from_uN returned
FldToUint ==
  /\ fld.pc \in {"elt", "lifted"}
  /\ \E w \in {"u16", "u32", "u64", "u128"} :
       /\ fld.pc = "lifted" => w = fld.kind
       /\ fld' = [fld EXCEPT !.pc = IF fld.pc = "elt" THEN "coerced" ELSE "lowered",
                             !.kind = w, !.res = ToUint(w, fld.f)]
  /\ UNCHANGED FldOthers

\* to_u32_unchecked .. to_u128_unchecked on an element
FldToUintUnchecked ==
  /\ fld.pc = "elt"
  /\ \E w \in {"u32", "u64", "u128"} :
       fld' = [fld EXCEPT !.pc = "truncated", !.kind = w, !.x = ToUintUnchecked(w, fld.f)]
  /\ UNCHANGED FldOthers

\* is_negative on an element and on its negation
FldIsNegative ==
  /\ fld.pc = "elt"
  /\ fld' = [fld EXCEPT !.pc = "signed", !.res = is_negative(fld.f),
                        !.f2 = FSub(F_ZERO, fld.f),
                        !.x = IF is_negative(FSub(F_ZERO, fld.f)) THEN 1 ELSE 0]
  /\ UNCHANGED FldOthers

FieldInit ==
  /\ FldInit
  /\ cache = Idle /\ sel = Idle /\ dr = Idle /\ syn = Idle /\ pair = Idle /\ tr = Idle /\ vp = Idle /\ sl = Idle

FieldNext ==
  \/ FldToBytes
  \/ FldFromBytes
  \/ FldFromTag
  \/ FldToTag
  \/ FldReTag
  \/ FldFromUint
  \/ FldToUint
  \/ FldToUintUnchecked
  \/ FldIsNegative

SpecField == FieldInit /\ [][FieldNext]_vars

\* C9: decoding the bytes that to_bytes gave for a field element returns that
\* element: from_bytes(to_bytes(f)) = Some(f).
C9_BytesRoundTrip ==
  fld.pc = "decoded" => fld.res = Some(fld.f)

\* An element whose encoding uses the top byte has been encoded and decoded.
C9_Witness ==
  /\ fld.pc = "decoded"
  /\ fld.f >= Pow(2, REPR_LEN - 1)
  /\ fld.bytes[REPR_LEN] = 1
  /\ fld.res.k = "Some"

\* C10: for every tag of the four enumerations, to_*_tag(from_*_tag(t)) is
\* Some(t), and encoding the returned tag again gives the same field element.
C10_TagRoundTrip ==
  /\ fld.pc \in {"untagged", "retagged"} => fld.res = Some(fld.tag)
  /\ fld.pc = "retagged" => fld.f2 = fld.f

\* A tag with a nonzero discriminant of each enumeration has made the round trip.
C10_Witness ==
  /\ fld.pc = "retagged"
  /\ fld.kind = "op2"
  /\ fld.tag = "Product"
  /\ fld.f = 3
  /\ fld.res = Some("Product")

(***************************************************************************)
(* The constraint system sink and the synthesis context                    *)
(*                                                                         *)
(* The sink is the sequence of the events a bellpepper ConstraintSystem    *)
(* receives: allocations and gadget calls, each under its hierarchical     *)
(* name.  An event carries the number of constraints it enforces and       *)
(* whether the witness at hand satisfies them.                             *)
(***************************************************************************)
\* One component of a hierarchical name: the text of a format! with its
\* arguments.
Nm(l, s, i, j) == [l |-> l, s |-> s, i |-> i, j |-> j]

\* An AllocatedNum: the handle of the variable and its witness value.
ANum(id, v) == [id |-> id, v |-> v]

\* An AllocatedPtr
APtr(tag, hash) == [tag |-> tag, hash |-> hash]

Ev(k, name, n, sat) == [k |-> k, name |-> name, n |-> n, sat |-> sat]

EmptyMap == <<>>

SlotTypes == <<"hash2", "hash3", "hash4", "commitment", "less_than">>

\* SlotType::preimg_size
preimg_size(typ) ==
  CASE typ = "hash2" -> 4
    [] typ = "hash3" -> 6
    [] typ = "hash4" -> 8
    [] typ = "commitment" -> 3
    [] typ = "less_than" -> 2

\* SlotsCounter::default
SlotsCounterDefault ==
  [hash2 |-> 0, hash3 |-> 0, hash4 |-> 0, commitment |-> 0, less_than |-> 0]

\* SlotsCounter::consume_hash2 .. consume_less_than: the index before the step.
consume(next_slot, typ) ==
  [idx |-> next_slot[typ], next |-> [next_slot EXCEPT ![typ] = @ + 1]]

\* SlotsCounter::max
\* A mutant: the first counter whatever the second is.
SlotsMaxFirst(a, b) == a

SlotsMax(a, b) == [t \in DOMAIN a |-> Max(a[t], b[t])]

\* The state one synthesize call owns: the sink (ev, nv), the GlobalAllocator
\* (ga), the bound allocations, the preallocated slots, the slot counter, the
\* call outputs and the call count; err records a panic or an Err; at is the
\* op being synthesized and log the record of the slot reads.
NewContext(call_outputs) ==
  [ev |-> <<>>, nv |-> 0, ga |-> EmptyMap, bound |-> EmptyMap,
   slots |-> [t \in {"hash2", "hash3", "hash4", "commitment", "less_than"} |-> <<>>],
   next_slot |-> SlotsCounterDefault,
   call_outputs |-> call_outputs, call_count |-> 0, err |-> "ok",
   at |-> <<>>, log |-> <<>>, cur |-> <<>>, calls |-> <<>>, rets |-> <<>>,
   blocks |-> <<>>]

\* The record of the slot counter: its value where a block is entered and
\* left, where a control branches and where its branches are joined.
CursorEvent(st, ns, what) ==
  IF st.err # "ok" THEN st
  ELSE [st EXCEPT !.cur = Append(@, [ns |-> ns, what |-> what, cursor |-> st.next_slot])]

\* The sink takes an event that allocates no variable.
\* The record of the blocks: the namespace of each block recurse is called
\* on, and the value of its not_dummy.
BlockEvent(st, ns, not_dummy) ==
  IF st.err # "ok" THEN st
  ELSE [st EXCEPT !.blocks = Append(@, [ns |-> ns, not_dummy |-> not_dummy])]

Emit(st, k, name, n, sat) ==
  [st EXCEPT !.ev = Append(@, Ev(k, name, n, sat))]

\* The sink takes an event that allocates one variable of value v.
EmitAlloc(st, k, name, n, sat, v) ==
  [st |-> [st EXCEPT !.ev = Append(@, Ev(k, name, n, sat)), !.nv = @ + 1],
   num |-> ANum(st.nv, v)]

\* allocate_num: an unconstrained witness variable.
allocate_num(st, name, value) == EmitAlloc(st, "alloc", name, 0, TRUE, value)

\* allocate_const: allocate_constant holds the variable to the value with one
\* constraint.
allocate_const(st, name, value) == EmitAlloc(st, "const", name, 1, TRUE, value)

\* A mutant: every call allocates, the cache is never read.
get_or_alloc_const_uncached(st, ns, f) ==
  LET r == allocate_const(st, Append(ns, Nm("allocate constant", "", f, 0)), f)
  IN [st |-> [r.st EXCEPT !.ga = (f :> r.num) @@ @], num |-> r.num]

\* GlobalAllocator::get_or_alloc_const
get_or_alloc_const(st, ns, f) ==
  IF f \in DOMAIN st.ga
  THEN [st |-> st, num |-> st.ga[f]]
  ELSE LET r == allocate_const(st, Append(ns, Nm("allocate constant", "", f, 0)), f)
       IN [st |-> [r.st EXCEPT !.ga = (f :> r.num) @@ @], num |-> r.num]

(***************************************************************************)
(* SpecCache: any sequence of get_or_alloc_const calls on one allocator.   *)
(***************************************************************************)
MaxCacheCalls == 4
MaxCacheValue == 2

CacheValues == (0..MaxCacheValue) \cup {MODULUS - 1}

CacheOthers == <<fld, sel, dr, syn, pair, tr, vp, sl>>

CacheInit ==
  /\ cache = [st |-> NewContext(<<>>), calls |-> <<>>]
  /\ fld = Idle /\ sel = Idle /\ dr = Idle /\ syn = Idle /\ pair = Idle /\ tr = Idle /\ vp = Idle /\ sl = Idle

CacheGetOrAlloc ==
  /\ Len(cache.calls) < MaxCacheCalls
  /\ \E f \in CacheValues :
       LET r == get_or_alloc_const(cache.st, <<>>, f)
       IN cache' = [st |-> r.st, calls |-> Append(cache.calls, [f |-> f, num |-> r.num])]
  /\ UNCHANGED CacheOthers

CacheNext == CacheGetOrAlloc

SpecCache == CacheInit /\ [][CacheNext]_vars

\* C8: within one allocator, two get_or_alloc_const calls return the same
\* handle exactly when their field values are equal, whatever was called
\* before and between them.
C8_CacheIdempotent ==
  \A i, j \in 1..Len(cache.calls) :
    (cache.calls[i].f = cache.calls[j].f) <=> (cache.calls[i].num.id = cache.calls[j].num.id)

\* A value is asked for, then another, then the first again: the third call
\* returns the first call's handle and the second call's differs.
C8_Witness ==
  /\ Len(cache.calls) = 3
  /\ cache.calls[1].f = cache.calls[3].f
  /\ cache.calls[1].f # cache.calls[2].f
  /\ cache.calls[1].num.id = cache.calls[3].num.id
  /\ cache.calls[2].num.id # cache.calls[1].num.id
  /\ cache.st.nv = 2

(***************************************************************************)
(* Gadgets (crate::circuit::gadgets::constraints): what each enforces.     *)
(***************************************************************************)
U64_RANGE == Pow(BYTE_BASE, U64_BYTES)

\* implies_equal: premise => a = b
\* A mutant: the equality is enforced whatever the premise is.
implies_equal_ungated(premise, a, b) == a = b

implies_equal_holds(premise, a, b) == premise => a = b

\* implies_unequal: premise => a # b
implies_unequal_holds(premise, a, b) == premise => a # b

\* implies_u64: premise => a is the packing of 64 bits
implies_u64_holds(premise, a) == premise => a < U64_RANGE

\* enforce_product_and_sum: a * b + c = d
enforce_product_and_sum_holds(a, b, c, d) == FAdd(FMul(a, b), c) = d

\* The number of true Booleans of a selector.
RECURSIVE popcount(_)
popcount(selector) ==
  IF selector = <<>> THEN 0
  ELSE (IF Head(selector) THEN 1 ELSE 0) + popcount(Tail(selector))

\* enforce_selector_with_premise: premise => exactly one Boolean is true
enforce_selector_with_premise_holds(premise, selector) ==
  premise => popcount(selector) = 1

(***************************************************************************)
(* Op::DivRem64                                                            *)
(***************************************************************************)
\* A mutant: the quotient and the remainder are computed on every path.
DivRem64WitnessAlwaysDivides(a, b, not_dummy) ==
  IF to_u64_unchecked(b) = 0
  THEN Panic
  ELSE Some(<<from_u64(to_u64_unchecked(a) \div to_u64_unchecked(b)),
              from_u64(to_u64_unchecked(a) % to_u64_unchecked(b))>>)

\* The witness of (div, rem): the u64 quotient and remainder on the concrete
\* path, where a zero divisor panics, and (0, a) on a virtual path.
DivRem64Witness(a, b, not_dummy) ==
  IF not_dummy
  THEN IF to_u64_unchecked(b) = 0
       THEN Panic
       ELSE Some(<<from_u64(to_u64_unchecked(a) \div to_u64_unchecked(b)),
                   from_u64(to_u64_unchecked(a) % to_u64_unchecked(b))>>)
  ELSE Some(<<F_ZERO, a>>)

\* The constraints Op::DivRem64 emits, on an assignment of div and rem.
DivRem64Holds(a, b, div, rem, not_dummy) ==
  /\ implies_u64_holds(not_dummy, div)
  /\ implies_u64_holds(not_dummy, rem)
  /\ implies_u64_holds(not_dummy, FSub(b, rem))
  /\ enforce_product_and_sum_holds(b, div, rem, a)

(***************************************************************************)
(* SpecDivRem: Op::DivRem64 on operands a and b, with the witness the      *)
(* synthesizer computes and with the assignments a prover may choose for   *)
(* the allocated div and rem.                                              *)
(***************************************************************************)
MaxDivRemValue == 6

\* Small values, the ends of the u64 range, and elements wider than u64.
DivRemValues ==
  (0..MaxDivRemValue)
    \cup {U64_RANGE - 1, U64_RANGE, U64_RANGE + 1, MODULUS - 1}

DivRemOthers == <<fld, cache, sel, syn, pair, tr, vp, sl>>

DivRemInit ==
  /\ \E a \in DivRemValues, b \in DivRemValues, nd \in BOOLEAN :
       dr = [pc |-> "op", a |-> a, b |-> b, not_dummy |-> nd, div |-> 0, rem |-> 0]
  /\ fld = Idle /\ cache = Idle /\ sel = Idle /\ syn = Idle /\ pair = Idle /\ tr = Idle /\ vp = Idle /\ sl = Idle

\* The synthesizer witnesses div and rem.
DivRemSynthesize ==
  /\ dr.pc = "op"
  /\ LET w == DivRem64Witness(dr.a, dr.b, dr.not_dummy)
     IN dr' = IF w.k = "panic"
              THEN [dr EXCEPT !.pc = "panic"]
              ELSE [dr EXCEPT !.pc = "witnessed", !.div = w.v[1], !.rem = w.v[2]]
  /\ UNCHANGED DivRemOthers

\* A prover assigns div and rem as it likes: the constraints alone stand
\* between the assignment and the proof.
DivRemAssign ==
  /\ dr.pc = "op"
  /\ \E d \in DivRemValues, r \in DivRemValues :
       dr' = [dr EXCEPT !.pc = "assigned", !.div = d, !.rem = r]
  /\ UNCHANGED DivRemOthers

DivRemNext == DivRemSynthesize \/ DivRemAssign

SpecDivRem == DivRemInit /\ [][DivRemNext]_vars

DivRemIs64(x) == x < U64_RANGE

\* The integer statement of the division: a = b * div + rem and 0 <= rem < b.
DivRemExact(a, b, div, rem) == a = b * div + rem /\ 0 <= rem /\ rem < b

\* C7: for 64-bit a and nonzero 64-bit b on the concrete path, the witnessed
\* (div, rem) satisfy a = b*div + rem with 0 <= rem < b, and every assignment
\* that satisfies the emitted constraints satisfies the same.
C7_DivRemEnforced ==
  (/\ dr.pc \in {"witnessed", "assigned"}
   /\ dr.not_dummy
   /\ DivRemIs64(dr.a) /\ DivRemIs64(dr.b) /\ dr.b # 0
   /\ DivRem64Holds(dr.a, dr.b, dr.div, dr.rem, dr.not_dummy))
  => (/\ DivRemIs64(dr.div) /\ DivRemIs64(dr.rem)
      /\ DivRemExact(dr.a, dr.b, dr.div, dr.rem))

\* What the code does guarantee: the synthesizer's own witness is the exact
\* quotient and remainder and satisfies the emitted constraints.
C7_HonestWitness ==
  (/\ dr.pc = "witnessed"
   /\ dr.not_dummy
   /\ DivRemIs64(dr.a) /\ DivRemIs64(dr.b) /\ dr.b # 0)
  => (/\ DivRemExact(dr.a, dr.b, dr.div, dr.rem)
      /\ DivRem64Holds(dr.a, dr.b, dr.div, dr.rem, dr.not_dummy))

\* What the constraints do enforce: the identity with 0 <= rem <= b.
C7_EnforcedWeak ==
  (/\ dr.pc \in {"witnessed", "assigned"}
   /\ dr.not_dummy
   /\ DivRemIs64(dr.a) /\ DivRemIs64(dr.b) /\ dr.b # 0
   /\ DivRem64Holds(dr.a, dr.b, dr.div, dr.rem, dr.not_dummy))
  => (dr.a = dr.b * dr.div + dr.rem /\ 0 <= dr.rem /\ dr.rem <= dr.b)

(***************************************************************************)
(* The selectors of Ctrl::IfEq, Ctrl::MatchTag and Ctrl::MatchVal          *)
(***************************************************************************)
\* Ctrl::IfEq: not_dummy.not(), is_eq and is_neq, in the order pushed.
IfEqSelector(not_dummy, is_eq, is_neq) == <<~not_dummy, is_eq, is_neq>>

\* A mutant: the default's Boolean is not pushed.
MatchTagSelectorNoDefault(not_dummy, cases, def) == Append(cases, ~not_dummy)

\* Ctrl::MatchTag: one has_match per case, the default's has_match when there
\* is a default block, and not_dummy.not() last.
MatchTagSelector(not_dummy, cases, def) ==
  Append(IF def.k = "Some" THEN Append(cases, def.v) ELSE cases, ~not_dummy)

\* Ctrl::MatchVal: as Ctrl::MatchTag.
MatchValSelector(not_dummy, cases, def) ==
  Append(IF def.k = "Some" THEN Append(cases, def.v) ELSE cases, ~not_dummy)

(***************************************************************************)
(* SpecSel: the selector constraint of a branching construct on every      *)
(* assignment of its selector Booleans.                                    *)
(***************************************************************************)
MaxCases == 3

SelOthers == <<fld, cache, dr, syn, pair, tr, vp, sl>>

BoolSeqs(n) == [1..n -> BOOLEAN]

SelInit ==
  /\ \E nd \in BOOLEAN :
       \/ \E is_eq \in BOOLEAN, is_neq \in BOOLEAN :
            sel = [pc |-> "ctrl", ctrl |-> "IfEq", not_dummy |-> nd,
                   cases |-> <<is_eq, is_neq>>, def |-> None,
                   selector |-> <<>>, holds |-> FALSE]
       \/ \E ctrl \in {"MatchTag", "MatchVal"}, n \in 0..MaxCases :
            \E cases \in BoolSeqs(n), def \in {None, Some(TRUE), Some(FALSE)} :
              sel = [pc |-> "ctrl", ctrl |-> ctrl, not_dummy |-> nd,
                     cases |-> cases, def |-> def,
                     selector |-> <<>>, holds |-> FALSE]
  /\ fld = Idle /\ cache = Idle /\ dr = Idle /\ syn = Idle /\ pair = Idle /\ tr = Idle /\ vp = Idle /\ sl = Idle

SelEnforced(selector) ==
  [sel EXCEPT !.pc = "enforced", !.selector = selector,
              !.holds = enforce_selector_with_premise_holds(sel.not_dummy, selector)]

SelIfEq ==
  /\ sel.pc = "ctrl" /\ sel.ctrl = "IfEq"
  /\ sel' = SelEnforced(IfEqSelector(sel.not_dummy, sel.cases[1], sel.cases[2]))
  /\ UNCHANGED SelOthers

SelMatchTag ==
  /\ sel.pc = "ctrl" /\ sel.ctrl = "MatchTag"
  /\ sel' = SelEnforced(MatchTagSelector(sel.not_dummy, sel.cases, sel.def))
  /\ UNCHANGED SelOthers

SelMatchVal ==
  /\ sel.pc = "ctrl" /\ sel.ctrl = "MatchVal"
  /\ sel' = SelEnforced(MatchValSelector(sel.not_dummy, sel.cases, sel.def))
  /\ UNCHANGED SelOthers

SelNext == SelIfEq \/ SelMatchTag \/ SelMatchVal

SpecSel == SelInit /\ [][SelNext]_vars

\* The number of true selectors among the cases and the default.
SelTrue == popcount(sel.cases) + (IF sel.def = Some(TRUE) THEN 1 ELSE 0)

\* C4: in IfEq, MatchTag and MatchVal, with not_dummy true the selector
\* constraint holds only if exactly one of the case selectors and the default
\* selector is true; with not_dummy false it holds for every assignment.
C4_Exclusivity ==
  sel.pc = "enforced" =>
    /\ (sel.not_dummy /\ sel.holds) => SelTrue = 1
    /\ ~sel.not_dummy => sel.holds

\* On the concrete path a match with two cases and a default holds its
\* constraint with the default alone true.
C4_Witness ==
  /\ sel.pc = "enforced"
  /\ sel.ctrl = "MatchTag"
  /\ sel.not_dummy
  /\ sel.cases = <<FALSE, FALSE>>
  /\ sel.def = Some(TRUE)
  /\ sel.holds

(***************************************************************************)
(* Pointers, tags, slots and frames (crate::lem, crate::tag)               *)
(***************************************************************************)
\* Tag::to_field of the expression tags the synthesizer names, by discriminant.
TagField ==
  [Nil |-> 0, Cons |-> 1, Sym |-> 2, Fun |-> 3, Num |-> 4, Thunk |-> 5,
   Str |-> 6, Char |-> 7, Comm |-> 8]

\* A ZPtr: the field elements of a pointer's tag and hash.
ZPtr(tag, hash) == [tag |-> tag, hash |-> hash]

\* Store::hash_ptr of a leaf pointer: its tag and its value.
hash_ptr(ptr) == ZPtr(ptr.tag, ptr.hash)

\* PreimageData
PtrVec(ptrs) == [k |-> "PtrVec", ptrs |-> ptrs, f |-> 0, g |-> 0]
FPtr(f, ptr) == [k |-> "FPtr", ptrs |-> <<ptr>>, f |-> f, g |-> 0]
FPair(a, b) == [k |-> "FPair", ptrs |-> <<>>, f |-> a, g |-> b]

\* The Poseidon hash of a preimage: an encoding that is injective on
\* preimages of one arity whose components are below HashRadix - 1.
HashRadix == 16

RECURSIVE Poseidon(_)
Poseidon(preimg) ==
  IF preimg = <<>> THEN 0
  ELSE (preimg[Len(preimg)] + 1
          + HashRadix * Poseidon(SubSeq(preimg, 1, Len(preimg) - 1))) % MODULUS

\* The constraints of the gadgets (crate::circuit::gadgets), as
\* Func::num_constraints accounts for them.
HASH2_CONSTRAINTS == 289
HASH3_CONSTRAINTS == 337
HASH4_CONSTRAINTS == 388
COMMITMENT_CONSTRAINTS == 265
IS_NEGATIVE_CONSTRAINTS == 389
U64_CONSTRAINTS == 65
BITS_STRICT_CONSTRAINTS == 388
IS_ZERO_CONSTRAINTS == 3

(***************************************************************************)
(* Gadgets: what each adds to the sink, and whether the witness at hand    *)
(* satisfies it.                                                           *)
(***************************************************************************)
Bit(b) == IF b THEN 1 ELSE 0

implies_equal(st, name, premise, a, b) ==
  Emit(st, "implies_equal", name, 1, implies_equal_holds(premise, a.v, b.v))

implies_unequal(st, name, premise, a, b) ==
  Emit(st, "implies_unequal", name, 1, implies_unequal_holds(premise, a.v, b.v))

implies_equal_const(st, name, premise, a, k) ==
  Emit(st, "implies_equal_const", name, 1, implies_equal_holds(premise, a.v, k))

implies_unequal_const(st, name, premise, a, k) ==
  Emit(st, "implies_unequal_const", name, 1, implies_unequal_holds(premise, a.v, k))

implies_u64(st, name, premise, a) ==
  Emit(st, "implies_u64", name, U64_CONSTRAINTS, implies_u64_holds(premise, a.v))

enforce_product_and_sum(st, name, a, b, c, d) ==
  Emit(st, "enforce_product_and_sum", name, 1,
       enforce_product_and_sum_holds(a.v, b.v, c.v, d.v))

enforce_selector_with_premise(st, name, premise, selector) ==
  Emit(st, "enforce_selector_with_premise", name, 1,
       enforce_selector_with_premise_holds(premise, selector))

\* AllocatedPtr::implies_ptr_equal: one implication for the tag, one for the hash.
implies_ptr_equal(st, name, premise, p, q) ==
  Emit(st, "implies_ptr_equal", name, 2,
       /\ implies_equal_holds(premise, p.tag.v, q.tag.v)
       /\ implies_equal_holds(premise, p.hash.v, q.hash.v))

\* AllocatedBit::alloc: a variable held to 0 or 1; the witness is a Boolean.
AllocatedBit_alloc(st, name, value) == EmitAlloc(st, "bit", name, 1, TRUE, value)

add(st, name, a, b) == EmitAlloc(st, "add", name, 1, TRUE, FAdd(a.v, b.v))
sub(st, name, a, b) == EmitAlloc(st, "sub", name, 1, TRUE, FSub(a.v, b.v))
mul(st, name, a, b) == EmitAlloc(st, "mul", name, 1, TRUE, FMul(a.v, b.v))

\* div: the quotient a * b^-1; the divisor handed in is never zero.
div(st, name, a, b) ==
  EmitAlloc(st, "div", name, 1, b.v # 0,
            IF b.v = 0 THEN 0 ELSE FMul(a.v, FInvert(b.v).v))

alloc_is_zero(st, name, a) ==
  EmitAlloc(st, "alloc_is_zero", name, IS_ZERO_CONSTRAINTS, TRUE, a.v = 0)

\* alloc_equal: a sub and an alloc_is_zero of the difference.
alloc_equal(st, name, a, b) ==
  EmitAlloc(st, "alloc_equal", name, 1 + IS_ZERO_CONSTRAINTS, TRUE, a.v = b.v)

boolean_to_num(st, name, b) ==
  EmitAlloc(st, "boolean_to_num", name, 1, TRUE, Bit(b.v))

\* pick: a if the condition holds, b otherwise.
pick(st, name, cond, a, b) ==
  EmitAlloc(st, "pick", name, 1, TRUE, IF cond.v THEN a.v ELSE b.v)

allocate_is_negative(st, name, a) ==
  EmitAlloc(st, "allocate_is_negative", name, IS_NEGATIVE_CONSTRAINTS, TRUE,
            is_negative(a.v))

\* hash_poseidon over the preallocated preimage, at the cost of its arity.
hash_poseidon(st, name, preimg, n) ==
  EmitAlloc(st, "hash_poseidon", name, n, TRUE,
            Poseidon([i \in DOMAIN preimg |-> preimg[i].v]))

\* AllocatedNum::to_bits_le_strict: the bits of the canonical representation.
to_bits_le_strict(st, name, a) ==
  [st |-> Emit(st, "to_bits_le_strict", name, BITS_STRICT_CONSTRAINTS, TRUE),
   bits |-> [i \in 1..REPR_LEN |-> (a.v \div Pow(2, i - 1)) % 2 = 1]]

RECURSIVE PackBits(_)
PackBits(bits) ==
  IF bits = <<>> THEN 0 ELSE Bit(Head(bits)) + 2 * PackBits(Tail(bits))

enforce_pack(st, name, bits, num) ==
  Emit(st, "enforce_pack", name, 1, PackBits(bits) = num.v)

(***************************************************************************)
(* Func::allocate_ptr, allocate_input, allocate_output, allocate_slots     *)
(***************************************************************************)
\* An Err or a panic ends the synthesis: the context keeps what it had.
Fail(st, why) == [st EXCEPT !.err = IF @ = "ok" THEN why ELSE @]

Bind(st, var, ptr) == [st EXCEPT !.bound = (var :> ptr) @@ @]

\* allocate_ptr: two unconstrained variables, bound to var.
allocate_ptr(st, ns, z_ptr, var) ==
  LET t == allocate_num(st, Append(ns, Nm("allocate tag", var, 0, 0)), z_ptr.tag)
      h == allocate_num(t.st, Append(ns, Nm("allocate hash", var, 0, 0)), z_ptr.hash)
      ptr == APtr(t.num, h.num)
  IN [st |-> Bind(h.st, var, ptr), ptr |-> ptr]

\* allocate_input: frame.input[i] under input_params[i]; indexing past the
\* parameters panics.
RECURSIVE allocate_input_from(_, _, _, _)
allocate_input_from(st, func, frame, i) ==
  IF i > Len(frame.input) \/ st.err # "ok" THEN st
  ELSE IF i > Len(func.input_params) THEN Fail(st, "panic: index")
  ELSE allocate_input_from(
         allocate_ptr(st, <<>>, hash_ptr(frame.input[i]), func.input_params[i]).st,
         func, frame, i + 1)

allocate_input(st, func, frame) == allocate_input_from(st, func, frame, 1)

\* The Var of the i-th output, "output[i]" (i counts from 0 in the program).
OutputVar(i) == "output[" \o ToString(i) \o "]"

\* allocate_output: one pointer per output of the frame.
RECURSIVE allocate_output_from(_, _, _, _)
allocate_output_from(st, frame, i, outs) ==
  IF i > Len(frame.output) \/ st.err # "ok" THEN [st |-> st, outs |-> outs]
  ELSE LET r == allocate_ptr(st, <<>>, hash_ptr(frame.output[i]), OutputVar(i - 1))
       IN allocate_output_from(r.st, frame, i + 1, Append(outs, r.ptr))

allocate_output(st, frame) == allocate_output_from(st, frame, 1, <<>>)

\* The values of the preimage components of a slot entry, in the order
\* allocate_slots allocates them; zeros for an entry that is None.
RECURSIVE PtrVecComponents(_)
PtrVecComponents(ptrs) ==
  IF ptrs = <<>> THEN <<>>
  ELSE <<hash_ptr(Head(ptrs)).tag, hash_ptr(Head(ptrs)).hash>>
         \o PtrVecComponents(Tail(ptrs))

PreimgComponents(maybe_preimg_data, slot_type) ==
  IF maybe_preimg_data.k = "None"
  THEN [i \in 1..preimg_size(slot_type) |-> F_ZERO]
  ELSE LET d == maybe_preimg_data.v
       IN CASE d.k = "PtrVec" -> PtrVecComponents(d.ptrs)
            [] d.k = "FPtr" ->
                 <<d.f, hash_ptr(d.ptrs[1]).tag, hash_ptr(d.ptrs[1]).hash>>
            [] d.k = "FPair" -> <<d.f, d.g>>

\* allocate_preimg_component_for_slot, for every component.
RECURSIVE allocate_preimg_components(_, _, _, _, _, _)
allocate_preimg_components(st, slot_type, slot_idx, vals, i, nums) ==
  IF i > Len(vals) THEN [st |-> st, nums |-> nums]
  ELSE LET r == allocate_num(
                  st, <<Nm("component for slot", slot_type, i - 1, slot_idx)>>, vals[i])
       IN allocate_preimg_components(r.st, slot_type, slot_idx, vals, i + 1,
                                     Append(nums, r.num))

\* allocate_img_for_slot: the Poseidon hash of the slot's arity, or the sign
\* of the difference for a LessThan slot.
allocate_img_for_slot(st, slot_type, slot_idx, preallocated_preimg) ==
  LET ns == <<Nm("image for slot", slot_type, slot_idx, 0)>>
  IN IF slot_type = "less_than" /\ Len(preallocated_preimg) < 2
     THEN [st |-> Fail(st, "panic: index out of bounds"), num |-> ANum(0, F_ZERO)]
     ELSE IF slot_type = "less_than"
     THEN LET diff == sub(st, Append(ns, Nm("sub for slot", slot_type, slot_idx, 0)),
                          preallocated_preimg[1], preallocated_preimg[2])
              neg == allocate_is_negative(
                       diff.st, Append(ns, Nm("is_negative for slot", slot_type, slot_idx, 0)),
                       diff.num)
          IN boolean_to_num(
               neg.st, Append(ns, Nm("boolean_to_num for slot", slot_type, slot_idx, 0)),
               neg.num)
     ELSE hash_poseidon(
            st, Append(ns, Nm("hash_poseidon", slot_type, slot_idx, 0)),
            preallocated_preimg,
            CASE slot_type = "hash2" -> HASH2_CONSTRAINTS
              [] slot_type = "hash3" -> HASH3_CONSTRAINTS
              [] slot_type = "hash4" -> HASH4_CONSTRAINTS
              [] slot_type = "commitment" -> COMMITMENT_CONSTRAINTS)

RECURSIVE allocate_slots_from(_, _, _, _, _)
allocate_slots_from(st, preimg_data, slot_type, i, preallocations) ==
  IF i > Len(preimg_data) \/ st.err # "ok" THEN [st |-> st, slots |-> preallocations]
  ELSE LET pre == allocate_preimg_components(
                    st, slot_type, i - 1, PreimgComponents(preimg_data[i], slot_type),
                    1, <<>>)
           img == allocate_img_for_slot(pre.st, slot_type, i - 1, pre.nums)
       IN allocate_slots_from(img.st, preimg_data, slot_type, i + 1,
                              Append(preallocations, [preimg |-> pre.nums, img |-> img.num]))

\* The loop of allocate_slots without its assertion.
allocate_slots_unchecked(st, preimg_data, slot_type, num_slots) ==
  IF st.err # "ok" THEN [st |-> st, slots |-> <<>>]
  ELSE allocate_slots_from(st, preimg_data, slot_type, 1, <<>>)

\* A mutant: after the assertion, only the entries that are present get a
\* preimage and an image.
allocate_slots_present_only(st, preimg_data, slot_type, num_slots) ==
  IF st.err # "ok" THEN [st |-> st, slots |-> <<>>]
  ELSE IF Len(preimg_data) # num_slots
  THEN [st |-> Fail(st, "panic: collected preimages not equal to the number of available slots"),
        slots |-> <<>>]
  ELSE allocate_slots_from(st, SelectSeq(preimg_data, LAMBDA e : e.k = "Some"),
                           slot_type, 1, <<>>)

\* allocate_slots: the assertion on the number of entries, then a preimage
\* and an image for every entry, None or not.
allocate_slots(st, preimg_data, slot_type, num_slots) ==
  IF st.err # "ok" THEN [st |-> st, slots |-> <<>>]
  ELSE IF Len(preimg_data) # num_slots
  THEN [st |-> Fail(st, "panic: collected preimages not equal to the number of available slots"),
        slots |-> <<>>]
  ELSE allocate_slots_from(st, preimg_data, slot_type, 1, <<>>)

(***************************************************************************)
(* synthesize::recurse, op by op.  Every op takes the context, the op, the *)
(* value of not_dummy and the namespace of the block, and returns the      *)
(* context.                                                                *)
(***************************************************************************)
\* BoundAllocations::get and get_many: an Err for an unbound variable.
IsBound(st, vs) == \A i \in DOMAIN vs : vs[i] \in DOMAIN st.bound

Unbound(st) == Fail(st, "Err: unbound variable")

\* The variables of an op, as its Debug form lists them.
RECURSIVE JoinVars(_)
JoinVars(vs) ==
  IF vs = <<>> THEN ""
  ELSE Head(vs) \o (IF Len(vs) > 1 THEN ", " ELSE "") \o JoinVars(Tail(vs))

\* format!("{:?}", op) for the ops whose namespaces carry it: the variant and
\* its fields.
OpDebug(op) ==
  CASE op.op \in {"Hash2", "Hash3", "Hash4"} ->
         op.op \o "(" \o op.img \o ", " \o ToString(op.tag) \o ", ["
           \o JoinVars(op.preimg) \o "])"
    [] op.op \in {"Unhash2", "Unhash3", "Unhash4"} ->
         op.op \o "([" \o JoinVars(op.preimg) \o "], " \o op.img \o ")"
    [] op.op = "Lt" -> "Lt(" \o JoinVars(<<op.tgt, op.a, op.b>>) \o ")"
    [] op.op = "Hide" -> "Hide(" \o JoinVars(<<op.tgt, op.sec, op.pay>>) \o ")"
    [] op.op = "Open" -> "Open(" \o JoinVars(<<op.sec, op.pay, op.comm>>) \o ")"

\* &g.preallocated_*_slots[next_slot.consume_*()]: the slot the counter names;
\* an index past the preallocated slots panics.
SlotRead(st, typ) ==
  LET c == consume(st.next_slot, typ)
  IN IF c.idx >= Len(st.slots[typ])
     THEN [st |-> Fail([st EXCEPT !.next_slot = c.next], "panic: index"),
           slot |-> [preimg |-> <<>>, img |-> ANum(0, 0)]]
     ELSE [st |-> [st EXCEPT !.next_slot = c.next,
                             !.log = Append(@, [at |-> st.at, typ |-> typ, idx |-> c.idx])],
           slot |-> st.slots[typ][c.idx + 1]]

\* The slot types the hash_helper! and unhash_helper! macros accept.
HashSlotTypes == {"hash2", "hash3", "hash4"}

Num_tag(st, ns) == get_or_alloc_const(st, ns, TagField.Num)

RECURSIVE hash_helper_preimg(_, _, _, _, _, _)
hash_helper_preimg(st, op, not_dummy, ns, slot, i) ==
  IF i > Len(op.preimg) \/ st.err # "ok" THEN st
  ELSE IF 2 * i > Len(slot.preimg) THEN Fail(st, "panic: index")
  ELSE LET var == op.preimg[i]
           t == implies_equal(st, Append(ns, Nm("implies equal for tag", var \o " " \o OpDebug(op), i - 1, 0)),
                              not_dummy, st.bound[var].tag, slot.preimg[2 * i - 1])
           h == implies_equal(t, Append(ns, Nm("implies equal for hash", var \o " " \o OpDebug(op), i - 1, 0)),
                              not_dummy, st.bound[var].hash, slot.preimg[2 * i])
       IN hash_helper_preimg(h, op, not_dummy, ns, slot, i + 1)

\* A mutant: on a virtual path the implications are left out.
hash_helper_concrete_only(st, op, not_dummy, ns, slot_type) ==
  IF ~IsBound(st, op.preimg) THEN Unbound(st)
  ELSE LET r == SlotRead(st, slot_type)
           c == IF not_dummy THEN hash_helper_preimg(r.st, op, not_dummy, ns, r.slot, 1)
                ELSE r.st
           img_tag == get_or_alloc_const(c, ns, op.tag)
       IN IF c.err # "ok" THEN c
          ELSE Bind(img_tag.st, op.img, APtr(img_tag.num, r.slot.img))

\* hash_helper!: the slot is consumed whether the path is concrete or not.
hash_helper(st, op, not_dummy, ns, slot_type) ==
  IF ~IsBound(st, op.preimg) THEN Unbound(st)
  ELSE IF slot_type \notin HashSlotTypes
  THEN Fail(st, "panic: Invalid slot type for hash_helper macro")
  ELSE LET r == SlotRead(st, slot_type)
           c == hash_helper_preimg(r.st, op, not_dummy, ns, r.slot, 1)
           img_tag == get_or_alloc_const(c, ns, op.tag)
       IN IF c.err # "ok" THEN c
          ELSE Bind(img_tag.st, op.img, APtr(img_tag.num, r.slot.img))

RECURSIVE unhash_helper_bind(_, _, _, _)
unhash_helper_bind(st, op, slot, i) ==
  IF 2 * i > Len(slot.preimg) \/ st.err # "ok" THEN st
  ELSE IF i > Len(op.preimg) THEN Fail(st, "panic: index")
  ELSE unhash_helper_bind(
         Bind(st, op.preimg[i], APtr(slot.preimg[2 * i - 1], slot.preimg[2 * i])),
         op, slot, i + 1)

\* unhash_helper!
unhash_helper(st, op, not_dummy, ns, slot_type) ==
  IF ~IsBound(st, <<op.img>>) THEN Unbound(st)
  ELSE IF slot_type \notin HashSlotTypes
  THEN Fail(st, "panic: Invalid slot type for unhash_helper macro")
  ELSE LET r == SlotRead(st, slot_type)
           c == implies_equal(r.st, Append(ns, Nm("implies equal for hash", op.img \o " " \o OpDebug(op), 0, 0)),
                              not_dummy, st.bound[op.img].hash, r.slot.img)
       IN IF r.st.err # "ok" THEN r.st ELSE unhash_helper_bind(c, op, r.slot, 1)

\* Op::Call up to the recursion: the output pointers of the call, taken from
\* call_outputs on the concrete path and dummies on a virtual one, and the
\* parameters of the callee bound to the arguments.
\* The record of the calls: where a Call op is met and where the body of its
\* callee is entered, the value of not_dummy, the queue of the call outputs,
\* the slot counter and the pointers bound to the call's output variables.
CallEvent(st, what, not_dummy, out) ==
  IF st.err # "ok" THEN st
  ELSE [st EXCEPT !.calls =
          Append(@, [what |-> what, not_dummy |-> not_dummy, queue |-> st.call_outputs,
                     cursor |-> st.next_slot,
                     out |-> IF \A i \in DOMAIN out : out[i] \in DOMAIN st.bound
                             THEN [i \in DOMAIN out |->
                                     ZPtr(st.bound[out[i]].tag.v, st.bound[out[i]].hash.v)]
                             ELSE <<>>])]

RECURSIVE CallAllocate(_, _, _, _, _, _)
CallAllocate(st, ns, output_vals, out, i, ptrs) ==
  IF i > Len(out) THEN [st |-> st, ptrs |-> ptrs]
  ELSE LET r == allocate_ptr(st, ns, hash_ptr(output_vals[i]), out[i])
       IN CallAllocate(r.st, ns, output_vals, out, i + 1, Append(ptrs, r.ptr))

RECURSIVE CallBindParams(_, _, _, _)
CallBindParams(st, params, args, i) ==
  IF i > Len(params) \/ i > Len(args) THEN st
  ELSE CallBindParams(Bind(st, params[i], args[i]), params, args, i + 1)

\* A mutant: the queue is read whether the path is concrete or not.
OpCallEnterAlwaysPop(st, op, not_dummy, ns) ==
  IF st.call_outputs = <<>>
  THEN [st |-> Fail(st, "panic: unwrap on None"), ptrs |-> <<>>]
  ELSE
    LET output_vals == Head(st.call_outputs)
        popped == [st EXCEPT !.call_outputs = Tail(@)]
    IN IF Len(output_vals) # Len(op.out)
       THEN [st |-> Fail(popped, "panic: assert_eq"), ptrs |-> <<>>]
       ELSE LET a == CallAllocate(popped, ns, output_vals, op.out, 1, <<>>)
            IN IF ~IsBound(a.st, op.inp)
               THEN [st |-> Unbound(a.st), ptrs |-> a.ptrs]
               ELSE [st |-> [CallBindParams(a.st, op.func.input_params,
                                            [i \in DOMAIN op.inp |-> a.st.bound[op.inp[i]]], 1)
                               EXCEPT !.call_count = @ + 1],
                     ptrs |-> a.ptrs]

\* A mutant: an empty queue gives the dummy outputs of a virtual path.
OpCallEnterDummyOnEmpty(st, op, not_dummy, ns) ==
  LET concrete == not_dummy /\ st.call_outputs # <<>>
      output_vals == IF concrete THEN Head(st.call_outputs)
                     ELSE [i \in 1..Len(op.out) |-> ZPtr(TagField.Nil, F_ZERO)]
      popped == IF concrete THEN [st EXCEPT !.call_outputs = Tail(@)] ELSE st
  IN IF Len(output_vals) # Len(op.out)
     THEN [st |-> Fail(popped, "panic: assert_eq"), ptrs |-> <<>>]
     ELSE LET a == CallAllocate(popped, ns, output_vals, op.out, 1, <<>>)
          IN IF ~IsBound(a.st, op.inp)
             THEN [st |-> Unbound(a.st), ptrs |-> a.ptrs]
             ELSE [st |-> [CallBindParams(a.st, op.func.input_params,
                                          [i \in DOMAIN op.inp |-> a.st.bound[op.inp[i]]], 1)
                             EXCEPT !.call_count = @ + 1],
                   ptrs |-> a.ptrs]

OpCallEnter(st, op, not_dummy, ns) ==
  IF not_dummy /\ st.call_outputs = <<>>
  THEN [st |-> Fail(st, "panic: unwrap on None"), ptrs |-> <<>>]
  ELSE
    LET output_vals == IF not_dummy THEN Head(st.call_outputs)
                       ELSE [i \in 1..Len(op.out) |-> ZPtr(TagField.Nil, F_ZERO)]
        popped == IF not_dummy THEN [st EXCEPT !.call_outputs = Tail(@)] ELSE st
    IN IF Len(output_vals) # Len(op.out)
       THEN [st |-> Fail(popped, "panic: assert_eq"), ptrs |-> <<>>]
       ELSE LET a == CallAllocate(popped, ns, output_vals, op.out, 1, <<>>)
            IN IF ~IsBound(a.st, op.inp)
               THEN [st |-> Unbound(a.st), ptrs |-> a.ptrs]
               ELSE [st |-> [CallBindParams(a.st, op.func.input_params,
                                            [i \in DOMAIN op.inp |-> a.st.bound[op.inp[i]]], 1)
                               EXCEPT !.call_count = @ + 1],
                     ptrs |-> a.ptrs]

OpNull(st, op, not_dummy, ns) ==
  LET tag == get_or_alloc_const(st, ns, op.tag)
      zero == get_or_alloc_const(tag.st, ns, F_ZERO)
  IN Bind(zero.st, op.tgt, APtr(tag.num, zero.num))

\* Op::Lit: the tag and the hash of the literal's pointer, as constants.
OpLit(st, op, not_dummy, ns) ==
  LET allocated_tag == get_or_alloc_const(st, ns, op.lit.tag)
      allocated_hash == get_or_alloc_const(allocated_tag.st, ns, op.lit.hash)
  IN Bind(allocated_hash.st, op.tgt, APtr(allocated_tag.num, allocated_hash.num))

OpCast(st, op, not_dummy, ns) ==
  IF ~IsBound(st, <<op.src>>) THEN Unbound(st)
  ELSE LET tag == get_or_alloc_const(st, ns, op.tag)
       IN Bind(tag.st, op.tgt, APtr(tag.num, st.bound[op.src].hash))

OpEqTag(st, op, not_dummy, ns) ==
  IF ~IsBound(st, <<op.a, op.b>>) THEN Unbound(st)
  ELSE LET eq == alloc_equal(st, Append(ns, Nm("equal_tag", "", 0, 0)),
                             st.bound[op.a].tag, st.bound[op.b].tag)
           c_num == boolean_to_num(eq.st, Append(ns, Nm("equal_tag.to_num", "", 0, 0)), eq.num)
           tag == Num_tag(c_num.st, ns)
       IN Bind(tag.st, op.tgt, APtr(tag.num, c_num.num))

OpEqVal(st, op, not_dummy, ns) ==
  IF ~IsBound(st, <<op.a, op.b>>) THEN Unbound(st)
  ELSE LET eq == alloc_equal(st, Append(ns, Nm("equal_val", "", 0, 0)),
                             st.bound[op.a].hash, st.bound[op.b].hash)
           c_num == boolean_to_num(eq.st, Append(ns, Nm("equal_val.to_num", "", 0, 0)), eq.num)
           tag == Num_tag(c_num.st, ns)
       IN Bind(tag.st, op.tgt, APtr(tag.num, c_num.num))

OpAdd(st, op, not_dummy, ns) ==
  IF ~IsBound(st, <<op.a, op.b>>) THEN Unbound(st)
  ELSE LET c_num == add(st, Append(ns, Nm("add", "", 0, 0)),
                        st.bound[op.a].hash, st.bound[op.b].hash)
           tag == Num_tag(c_num.st, ns)
       IN Bind(tag.st, op.tgt, APtr(tag.num, c_num.num))

OpSub(st, op, not_dummy, ns) ==
  IF ~IsBound(st, <<op.a, op.b>>) THEN Unbound(st)
  ELSE LET c_num == sub(st, Append(ns, Nm("sub", "", 0, 0)),
                        st.bound[op.a].hash, st.bound[op.b].hash)
           tag == Num_tag(c_num.st, ns)
       IN Bind(tag.st, op.tgt, APtr(tag.num, c_num.num))

\* A mutant: the product is replaced by the sum.
OpMulAsAdd(st, op, not_dummy, ns) ==
  IF ~IsBound(st, <<op.a, op.b>>) THEN Unbound(st)
  ELSE LET c_num == add(st, Append(ns, Nm("mul", "", 0, 0)),
                        st.bound[op.a].hash, st.bound[op.b].hash)
           tag == Num_tag(c_num.st, ns)
       IN Bind(tag.st, op.tgt, APtr(tag.num, c_num.num))

OpMul(st, op, not_dummy, ns) ==
  IF ~IsBound(st, <<op.a, op.b>>) THEN Unbound(st)
  ELSE LET c_num == mul(st, Append(ns, Nm("mul", "", 0, 0)),
                        st.bound[op.a].hash, st.bound[op.b].hash)
           tag == Num_tag(c_num.st, ns)
       IN Bind(tag.st, op.tgt, APtr(tag.num, c_num.num))

\* Op::Div: the divisor is b, or one when b is zero; the constants ONE and
\* then the Num tag are taken from the allocator.
\* A mutant: the quotient is taken by the bound divisor itself.
OpDivUnguarded(st, op, not_dummy, ns) ==
  IF ~IsBound(st, <<op.a, op.b>>) THEN Unbound(st)
  ELSE LET a_num == st.bound[op.a].hash
           b_num == st.bound[op.b].hash
           quotient == div(st, Append(ns, Nm("quotient", "", 0, 0)), a_num, b_num)
           tag == Num_tag(quotient.st, ns)
       IN Bind(tag.st, op.tgt, APtr(tag.num, quotient.num))

OpDiv(st, op, not_dummy, ns) ==
  IF ~IsBound(st, <<op.a, op.b>>) THEN Unbound(st)
  ELSE LET a_num == st.bound[op.a].hash
           b_num == st.bound[op.b].hash
           b_is_zero == alloc_is_zero(st, Append(ns, Nm("b_is_zero", "", 0, 0)), b_num)
           one == get_or_alloc_const(b_is_zero.st, ns, F_ONE)
           divisor == pick(one.st, Append(ns, Nm("maybe-dummy divisor", "", 0, 0)),
                           b_is_zero.num, one.num, b_num)
           quotient == div(divisor.st, Append(ns, Nm("quotient", "", 0, 0)),
                           a_num, divisor.num)
           tag == Num_tag(quotient.st, ns)
       IN Bind(tag.st, op.tgt, APtr(tag.num, quotient.num))

\* A mutant: the slot is consumed on the concrete path only.
OpLtConcreteOnly(st, op, not_dummy, ns) ==
  IF ~IsBound(st, <<op.a, op.b>>) THEN Unbound(st)
  ELSE LET tag == Num_tag(st, ns)
           r == SlotRead(tag.st, "less_than")
           c0 == implies_equal(r.st, Append(ns, Nm("implies equal for component", OpDebug(op), 0, 0)),
                               not_dummy, st.bound[op.a].hash, r.slot.preimg[1])
           c1 == implies_equal(c0, Append(ns, Nm("implies equal for component", OpDebug(op), 1, 0)),
                               not_dummy, st.bound[op.b].hash, r.slot.preimg[2])
       IN IF ~not_dummy THEN Bind(tag.st, op.tgt, APtr(tag.num, tag.num))
          ELSE IF r.st.err # "ok" THEN r.st
          ELSE Bind(c1, op.tgt, APtr(tag.num, r.slot.img))

OpLt(st, op, not_dummy, ns) ==
  IF ~IsBound(st, <<op.a, op.b>>) THEN Unbound(st)
  ELSE LET tag == Num_tag(st, ns)
           r == SlotRead(tag.st, "less_than")
           c0 == implies_equal(r.st, Append(ns, Nm("implies equal for component", OpDebug(op), 0, 0)),
                               not_dummy, st.bound[op.a].hash, r.slot.preimg[1])
           c1 == implies_equal(c0, Append(ns, Nm("implies equal for component", OpDebug(op), 1, 0)),
                               not_dummy, st.bound[op.b].hash, r.slot.preimg[2])
       IN IF r.st.err # "ok" THEN r.st
          ELSE Bind(c1, op.tgt, APtr(tag.num, r.slot.img))

\* The widest truncation Op::Trunc accepts: the bits of a u64.
TRUNC_MAX_BITS == 8

\* A mutant: the witness keeps all the bits of the u64 whatever n is.
OpTruncUnmasked(st, op, not_dummy, ns) ==
  IF op.n > TRUNC_MAX_BITS THEN Fail(st, "panic: assert")
  ELSE IF ~IsBound(st, <<op.a>>) THEN Unbound(st)
  ELSE LET a == st.bound[op.a].hash
           bits == to_bits_le_strict(st, Append(ns, Nm("to_bits_le", "", 0, 0)), a)
           trunc_bits == SubSeq(bits.bits, 1, op.n)
           trunc == EmitAlloc(bits.st, "alloc", Append(ns, Nm("trunc", "", 0, 0)), 0, TRUE,
                              from_u64(to_u64_unchecked(a.v)))
           packed == enforce_pack(trunc.st, Append(ns, Nm("enforce_trunc", "", 0, 0)),
                                  trunc_bits, trunc.num)
           tag == Num_tag(packed, ns)
       IN Bind(tag.st, op.tgt, APtr(tag.num, trunc.num))

OpTrunc(st, op, not_dummy, ns) ==
  IF op.n > TRUNC_MAX_BITS THEN Fail(st, "panic: assert")
  ELSE IF ~IsBound(st, <<op.a>>) THEN Unbound(st)
  ELSE LET a == st.bound[op.a].hash
           bits == to_bits_le_strict(st, Append(ns, Nm("to_bits_le", "", 0, 0)), a)
           trunc_bits == SubSeq(bits.bits, 1, op.n)
           b == IF op.n < TRUNC_MAX_BITS THEN Pow(2, op.n) - 1 ELSE U64_RANGE - 1
           trunc == EmitAlloc(bits.st, "alloc", Append(ns, Nm("trunc", "", 0, 0)), 0, TRUE,
                              from_u64(to_u64_unchecked(a.v) % (b + 1)))
           packed == enforce_pack(trunc.st, Append(ns, Nm("enforce_trunc", "", 0, 0)),
                                  trunc_bits, trunc.num)
           tag == Num_tag(packed, ns)
       IN Bind(tag.st, op.tgt, APtr(tag.num, trunc.num))

OpDivRem64(st, op, not_dummy, ns) ==
  IF ~IsBound(st, <<op.a, op.b>>) THEN Unbound(st)
  ELSE LET a == st.bound[op.a].hash
           b == st.bound[op.b].hash
           div_rem == DivRem64Witness(a.v, b.v, not_dummy)
       IN IF div_rem.k = "panic" THEN Fail(st, "panic: divide by zero")
          ELSE
            LET dv == allocate_num(st, Append(ns, Nm("div", "", 0, 0)), div_rem.v[1])
                rem == allocate_num(dv.st, Append(ns, Nm("rem", "", 0, 0)), div_rem.v[2])
                diff == sub(rem.st, Append(ns, Nm("diff for slot {slot}", "", 0, 0)), b, rem.num)
                c1 == implies_u64(diff.st, Append(ns, Nm("div_u64", "", 0, 0)), not_dummy, dv.num)
                c2 == implies_u64(c1, Append(ns, Nm("rem_u64", "", 0, 0)), not_dummy, rem.num)
                c3 == implies_u64(c2, Append(ns, Nm("diff_u64", "", 0, 0)), not_dummy, diff.num)
                c4 == enforce_product_and_sum(
                        c3, Append(ns, Nm("enforce a = b * div + rem", "", 0, 0)),
                        b, dv.num, rem.num, a)
                tag == Num_tag(c4, ns)
            IN Bind(Bind(tag.st, op.tgt[1], APtr(tag.num, dv.num)),
                    op.tgt[2], APtr(tag.num, rem.num))

OpEmit(st, op, not_dummy, ns) == st

\* Op::Hide: the secret is a Num whose hash is the first component of the
\* commitment slot's preimage, the payload is the other two; the result is
\* the Comm pointer of the slot's image.
OpHide(st, op, not_dummy, ns) ==
  IF ~IsBound(st, <<op.sec, op.pay>>) THEN Unbound(st)
  ELSE LET sec == st.bound[op.sec]
           pay == st.bound[op.pay]
           sec_tag == Num_tag(st, ns)
           r == SlotRead(sec_tag.st, "commitment")
           c1 == implies_equal(r.st, Append(ns, Nm("implies equal for the secret's tag", OpDebug(op), 0, 0)),
                               not_dummy, sec.tag, sec_tag.num)
           c2 == implies_equal(c1, Append(ns, Nm("implies equal for the secret's hash", OpDebug(op), 0, 0)),
                               not_dummy, sec.hash, r.slot.preimg[1])
           c3 == implies_equal(c2, Append(ns, Nm("implies equal for the payload's tag", OpDebug(op), 0, 0)),
                               not_dummy, pay.tag, r.slot.preimg[2])
           c4 == implies_equal(c3, Append(ns, Nm("implies equal for the payload's hash", OpDebug(op), 0, 0)),
                               not_dummy, pay.hash, r.slot.preimg[3])
           tag == get_or_alloc_const(c4, ns, TagField.Comm)
       IN IF r.st.err # "ok" THEN r.st
          ELSE Bind(tag.st, op.tgt, APtr(tag.num, r.slot.img))

\* A mutant: the commitment's hash is not held to the slot's image.
OpOpenUnchecked(st, op, not_dummy, ns) ==
  IF ~IsBound(st, <<op.comm>>) THEN Unbound(st)
  ELSE LET comm == st.bound[op.comm]
           r == SlotRead(st, "commitment")
           comm_tag == get_or_alloc_const(r.st, ns, TagField.Comm)
           c1 == implies_equal(comm_tag.st, Append(ns, Nm("implies equal for comm's tag", OpDebug(op), 0, 0)),
                               not_dummy, comm.tag, comm_tag.num)
           c2 == implies_equal(c1, Append(ns, Nm("implies equal for comm's hash", OpDebug(op), 0, 0)),
                               not_dummy, comm.hash, comm.hash)
           sec_tag == Num_tag(c2, ns)
       IN IF r.st.err # "ok" THEN r.st
          ELSE Bind(Bind(sec_tag.st, op.sec, APtr(sec_tag.num, r.slot.preimg[1])),
                    op.pay, APtr(r.slot.preimg[2], r.slot.preimg[3]))

\* Op::Open: the commitment is the Comm pointer of the slot's image; the
\* secret and the payload are bound to the slot's preimage.
OpOpen(st, op, not_dummy, ns) ==
  IF ~IsBound(st, <<op.comm>>) THEN Unbound(st)
  ELSE LET comm == st.bound[op.comm]
           r == SlotRead(st, "commitment")
           comm_tag == get_or_alloc_const(r.st, ns, TagField.Comm)
           c1 == implies_equal(comm_tag.st, Append(ns, Nm("implies equal for comm's tag", OpDebug(op), 0, 0)),
                               not_dummy, comm.tag, comm_tag.num)
           c2 == implies_equal(c1, Append(ns, Nm("implies equal for comm's hash", OpDebug(op), 0, 0)),
                               not_dummy, comm.hash, r.slot.img)
           sec_tag == Num_tag(c2, ns)
       IN IF r.st.err # "ok" THEN r.st
          ELSE Bind(Bind(sec_tag.st, op.sec, APtr(sec_tag.num, r.slot.preimg[1])),
                    op.pay, APtr(r.slot.preimg[2], r.slot.preimg[3]))

\* The ops that do not recurse.
SynthesizeOp(st, op, not_dummy, ns) ==
  CASE op.op = "Hash2" -> hash_helper(st, op, not_dummy, ns, "hash2")
    [] op.op = "Hash3" -> hash_helper(st, op, not_dummy, ns, "hash3")
    [] op.op = "Hash4" -> hash_helper(st, op, not_dummy, ns, "hash4")
    [] op.op = "Unhash2" -> unhash_helper(st, op, not_dummy, ns, "hash2")
    [] op.op = "Unhash3" -> unhash_helper(st, op, not_dummy, ns, "hash3")
    [] op.op = "Unhash4" -> unhash_helper(st, op, not_dummy, ns, "hash4")
    [] op.op = "Null" -> OpNull(st, op, not_dummy, ns)
    [] op.op = "Lit" -> OpLit(st, op, not_dummy, ns)
    [] op.op = "Cast" -> OpCast(st, op, not_dummy, ns)
    [] op.op = "EqTag" -> OpEqTag(st, op, not_dummy, ns)
    [] op.op = "EqVal" -> OpEqVal(st, op, not_dummy, ns)
    [] op.op = "Add" -> OpAdd(st, op, not_dummy, ns)
    [] op.op = "Sub" -> OpSub(st, op, not_dummy, ns)
    [] op.op = "Mul" -> OpMul(st, op, not_dummy, ns)
    [] op.op = "Div" -> OpDiv(st, op, not_dummy, ns)
    [] op.op = "Lt" -> OpLt(st, op, not_dummy, ns)
    [] op.op = "Trunc" -> OpTrunc(st, op, not_dummy, ns)
    [] op.op = "DivRem64" -> OpDivRem64(st, op, not_dummy, ns)
    [] op.op = "Emit" -> OpEmit(st, op, not_dummy, ns)
    [] op.op = "Hide" -> OpHide(st, op, not_dummy, ns)
    [] op.op = "Open" -> OpOpen(st, op, not_dummy, ns)

\* Ctrl::Return: every returned pointer equals the preallocated output.
\* The record of the returns: the namespace of the block, the value of
\* not_dummy and the pointers bound to the returned variables.
ReturnEvent(st, ns, not_dummy, return_vars) ==
  IF st.err # "ok" \/ \E i \in DOMAIN return_vars : return_vars[i] \notin DOMAIN st.bound
  THEN st
  ELSE [st EXCEPT !.rets =
          Append(@, [ns |-> ns, not_dummy |-> not_dummy, vars |-> return_vars,
                     vals |-> [i \in DOMAIN return_vars |->
                                 ZPtr(st.bound[return_vars[i]].tag.v,
                                      st.bound[return_vars[i]].hash.v)]])]

\* A mutant: the equalities are enforced whether the path is concrete or not.
RECURSIVE CtrlReturnUngated(_, _, _, _, _, _)
CtrlReturnUngated(st, return_vars, not_dummy, preallocated_outputs, ns, i) ==
  IF i > Len(return_vars) \/ st.err # "ok" THEN st
  ELSE IF ~IsBound(st, <<return_vars[i]>>) THEN Unbound(st)
  ELSE IF i > Len(preallocated_outputs) THEN Fail(st, "panic: index")
  ELSE CtrlReturnUngated(
         implies_ptr_equal(st, Append(ns, Nm("implies_ptr_equal", return_vars[i], i - 1, 0)),
                           TRUE, st.bound[return_vars[i]], preallocated_outputs[i]),
         return_vars, not_dummy, preallocated_outputs, ns, i + 1)

RECURSIVE CtrlReturn(_, _, _, _, _, _)
CtrlReturn(st, return_vars, not_dummy, preallocated_outputs, ns, i) ==
  IF i > Len(return_vars) \/ st.err # "ok" THEN st
  ELSE IF ~IsBound(st, <<return_vars[i]>>) THEN Unbound(st)
  ELSE IF i > Len(preallocated_outputs) THEN Fail(st, "panic: index")
  ELSE CtrlReturn(
         implies_ptr_equal(st, Append(ns, Nm("implies_ptr_equal", return_vars[i], i - 1, 0)),
                           not_dummy, st.bound[return_vars[i]], preallocated_outputs[i]),
         return_vars, not_dummy, preallocated_outputs, ns, i + 1)

\* Ctrl::IfEq before its blocks: the two Booleans, their implications and the
\* selector constraint.
CtrlIfEqEnter(st, ctrl, not_dummy, ns) ==
  LET x_ptr == st.bound[ctrl.x].hash
      y_ptr == st.bound[ctrl.y].hash
      is_eq == AllocatedBit_alloc(st, Append(ns, Nm("if_eq", "", 0, 0)),
                                  not_dummy /\ x_ptr.v = y_ptr.v)
      is_neq == AllocatedBit_alloc(is_eq.st, Append(ns, Nm("if_neq", "", 0, 0)),
                                   not_dummy /\ x_ptr.v # y_ptr.v)
      c1 == implies_equal(is_neq.st, Append(ns, Nm("=", ctrl.x \o " = " \o ctrl.y, 0, 0)),
                          is_eq.num.v, x_ptr, y_ptr)
      c2 == implies_unequal(c1, Append(ns, Nm("!=", ctrl.x \o " != " \o ctrl.y, 0, 0)),
                            is_neq.num.v, x_ptr, y_ptr)
      c3 == enforce_selector_with_premise(
              c2, Append(ns, Nm("if_enforce_selector_with_premise", "", 0, 0)),
              not_dummy, IfEqSelector(not_dummy, is_eq.num.v, is_neq.num.v))
  IN [st |-> c3, is_eq |-> is_eq.num.v, is_neq |-> is_neq.num.v]

\* One case of a match before its block: the case's Boolean and its
\* implication.  k is the tag of a MatchTag case, the literal's hash of a
\* MatchVal case.
\* A mutant: the case's Boolean does not look at not_dummy.
MatchCaseEnterUngated(st, label, match_num, k, not_dummy, ns) ==
  LET has_match == AllocatedBit_alloc(st, Append(ns, Nm("allocated_bit", label, 0, 0)),
                                      match_num.v = k)
      c == implies_equal_const(has_match.st, Append(ns, Nm("implies equal for", label, 0, 0)),
                               has_match.num.v, match_num, k)
  IN [st |-> c, has_match |-> has_match.num.v]

MatchCaseEnter(st, label, match_num, k, not_dummy, ns) ==
  LET has_match == AllocatedBit_alloc(st, Append(ns, Nm("allocated_bit", label, 0, 0)),
                                      not_dummy /\ match_num.v = k)
      c == implies_equal_const(has_match.st, Append(ns, Nm("implies equal for", label, 0, 0)),
                               has_match.num.v, match_num, k)
  IN [st |-> c, has_match |-> has_match.num.v]

\* fold(not_dummy, |acc, b| acc && !b) over the selector so far.
DefaultValue(not_dummy, selector) ==
  not_dummy /\ \A i \in DOMAIN selector : ~selector[i]

RECURSIVE MatchDefaultUnequal(_, _, _, _, _, _)
MatchDefaultUnequal(st, has_match, match_num, ks, ns, i) ==
  IF i > Len(ks) THEN st
  ELSE MatchDefaultUnequal(
         implies_unequal_const(st, Append(ns, Nm("implies_unequal", "", i - 1, ks[i])),
                               has_match, match_num, ks[i]),
         has_match, match_num, ks, ns, i + 1)

\* The default of a match before its block: its Boolean and one inequality
\* per case.
MatchDefaultEnter(st, match_num, ks, selector, not_dummy, ns) ==
  LET has_match == AllocatedBit_alloc(st, Append(ns, Nm("_.allocated_bit", "", 0, 0)),
                                      DefaultValue(not_dummy, selector))
  IN [st |-> MatchDefaultUnequal(has_match.st, has_match.num.v, match_num, ks, ns, 1),
      has_match |-> has_match.num.v]

\* The label of a case's namespace: the tag in a MatchTag, the position in a
\* MatchVal.
CaseLabel(ctrl, i) ==
  IF ctrl.ctrl = "MatchTag" THEN "tag " \o ToString(ctrl.cases[i].k)
  ELSE ToString(i - 1)

\* The value the match is on: the tag in a MatchTag, the hash in a MatchVal.
MatchNum(st, ctrl) ==
  IF ctrl.ctrl = "MatchTag" THEN st.bound[ctrl.var].tag ELSE st.bound[ctrl.var].hash

\* The selector of a match: the cases' Booleans, the default's, not_dummy.not().
MatchSelector(ctrl, not_dummy, cases, def) ==
  IF ctrl.ctrl = "MatchTag" THEN MatchTagSelector(not_dummy, cases, def)
  ELSE MatchValSelector(not_dummy, cases, def)

RECURSIVE FoldSlotsMax(_, _)
FoldSlotsMax(acc, branch_slots) ==
  IF branch_slots = <<>> THEN acc
  ELSE FoldSlotsMax(SlotsMax(acc, Head(branch_slots)), Tail(branch_slots))

\* The end of a match: the counter takes the most that any case used, and
\* the selector constraint is enforced.
MatchExit(st, branch_slots, not_dummy, selector, ns) ==
  IF st.err # "ok" THEN st
  ELSE enforce_selector_with_premise(
         [st EXCEPT !.next_slot = FoldSlotsMax(@, branch_slots)],
         Append(ns, Nm("enforce_selector_with_premise", "", 0, 0)),
         not_dummy, selector)

\* A mutant: the counter of the else block is kept as it is.
IfEqExitElseOnly(st, branch_slot) == st

\* The end of an IfEq: *next_slot = next_slot.max(branch_slot).
IfEqExit(st, branch_slot) ==
  IF st.err # "ok" THEN st ELSE [st EXCEPT !.next_slot = SlotsMax(@, branch_slot)]

RECURSIVE recurse(_, _, _, _, _)
RECURSIVE recurse_ops(_, _, _, _, _, _)
RECURSIVE recurse_call(_, _, _, _)
RECURSIVE recurse_ctrl(_, _, _, _, _)
RECURSIVE recurse_if_eq(_, _, _, _, _)
RECURSIVE recurse_if_neq(_, _, _, _, _, _)
RECURSIVE recurse_cases(_, _, _, _, _, _, _, _, _)
RECURSIVE recurse_case(_, _, _, _, _, _, _, _, _, _)
RECURSIVE recurse_case_end(_, _, _, _, _, _, _, _, _, _, _)
RECURSIVE recurse_match(_, _, _, _, _, _)
RECURSIVE recurse_default(_, _, _, _, _, _)

\* Op::Call after its allocations: the body of the callee, under the
\* namespace of the call count, returning to the call's output pointers.
recurse_call(e, op, not_dummy, ns) ==
  IF e.st.err # "ok" THEN e.st
  ELSE recurse(CallEvent(e.st, "body", not_dummy, op.out), op.func.body, not_dummy, e.ptrs,
               Append(ns, Nm("Call", "", e.st.call_count, 0)))

\* The ops of a block, in order; an Err or a panic ends the synthesis.
recurse_ops(st, ops, i, not_dummy, preallocated_outputs, ns) ==
  IF i > Len(ops) \/ st.err # "ok" THEN st
  ELSE recurse_ops(
         IF ops[i].op = "Call"
         THEN recurse_call(
                OpCallEnter(CallEvent([st EXCEPT !.at = Append(ns, Nm("op", ops[i].op, i, 0))],
                                      "call", not_dummy, <<>>),
                            ops[i], not_dummy, ns),
                ops[i], not_dummy, ns)
         ELSE SynthesizeOp([st EXCEPT !.at = Append(ns, Nm("op", ops[i].op, i, 0))],
                           ops[i], not_dummy, ns),
         ops, i + 1, not_dummy, preallocated_outputs, ns)

\* Ctrl::IfEq: the block of the equal case runs on a copy of the counter,
\* the other block on the counter itself.
recurse_if_eq(e, next_slot, ctrl, preallocated_outputs, ns) ==
  recurse_if_neq(
    recurse(e.st, ctrl.eq_block, e.is_eq, preallocated_outputs,
            Append(ns, Nm("if_eq.true", "", 0, 0))),
    e.is_neq, next_slot, ctrl, preallocated_outputs, ns)

\* A mutant: both blocks run on the one counter.
recurse_if_neq_shared(t, is_neq, next_slot, ctrl, preallocated_outputs, ns) ==
  IF t.err # "ok" THEN t
  ELSE IfEqExit(
         recurse(t, ctrl.else_block, is_neq,
                 preallocated_outputs, Append(ns, Nm("if_eq.false", "", 0, 0))),
         t.next_slot)

recurse_if_neq(t, is_neq, next_slot, ctrl, preallocated_outputs, ns) ==
  IF t.err # "ok" THEN t
  ELSE IfEqExit(
         recurse([t EXCEPT !.next_slot = next_slot], ctrl.else_block, is_neq,
                 preallocated_outputs, Append(ns, Nm("if_eq.false", "", 0, 0))),
         t.next_slot)

\* The cases of a match, in order: each block runs on a copy of the slot
\* counter taken before the match.
recurse_cases(st, ctrl, match_num, i, not_dummy, preallocated_outputs, ns, selector, branch_slots) ==
  IF i > Len(ctrl.cases) \/ st.err # "ok"
  THEN [st |-> st, selector |-> selector, branch_slots |-> branch_slots]
  ELSE recurse_case(
         MatchCaseEnter(st, CaseLabel(ctrl, i), match_num, ctrl.cases[i].k, not_dummy, ns),
         st.next_slot, ctrl, match_num, i, not_dummy, preallocated_outputs, ns,
         selector, branch_slots)

recurse_case(e, next_slot, ctrl, match_num, i, not_dummy, preallocated_outputs, ns, selector, branch_slots) ==
  recurse_case_end(
    recurse(e.st, ctrl.cases[i].block, e.has_match, preallocated_outputs,
            Append(ns, Nm("case", CaseLabel(ctrl, i), 0, 0))),
    e.has_match, next_slot, ctrl, match_num, i, not_dummy, preallocated_outputs, ns,
    selector, branch_slots)

recurse_case_end(b, has_match, next_slot, ctrl, match_num, i, not_dummy, preallocated_outputs, ns, selector, branch_slots) ==
  recurse_cases([b EXCEPT !.next_slot = next_slot], ctrl, match_num, i + 1, not_dummy,
                preallocated_outputs, ns,
                Append(selector, has_match), Append(branch_slots, b.next_slot))

\* The default of a match runs on the counter itself.
recurse_default(d, cs, ctrl, not_dummy, preallocated_outputs, ns) ==
  MatchExit(
    recurse(d.st, ctrl.def.v, d.has_match, preallocated_outputs,
            Append(ns, Nm("_", "", 0, 0))),
    cs.branch_slots, not_dummy,
    MatchSelector(ctrl, not_dummy, cs.selector, Some(d.has_match)), ns)

\* Ctrl::MatchTag and Ctrl::MatchVal after their cases.
recurse_match(cs, ctrl, match_num, not_dummy, preallocated_outputs, ns) ==
  IF cs.st.err # "ok" THEN cs.st
  ELSE IF ctrl.def.k = "Some"
  THEN recurse_default(
         MatchDefaultEnter(cs.st, match_num, [i \in DOMAIN ctrl.cases |-> ctrl.cases[i].k],
                           cs.selector, not_dummy, ns),
         cs, ctrl, not_dummy, preallocated_outputs, ns)
  ELSE MatchExit(cs.st, cs.branch_slots, not_dummy,
                 MatchSelector(ctrl, not_dummy, cs.selector, None), ns)

\* The control of a block, after its ops.
recurse_ctrl(st, ctrl, not_dummy, preallocated_outputs, ns) ==
  IF st.err # "ok" THEN st
  ELSE CASE ctrl.ctrl = "Return" ->
              CtrlReturn(ReturnEvent(st, ns, not_dummy, ctrl.vars), ctrl.vars, not_dummy,
                         preallocated_outputs, ns, 1)
         [] ctrl.ctrl = "IfEq" ->
              IF ~IsBound(st, <<ctrl.x, ctrl.y>>) THEN Unbound(st)
              ELSE CursorEvent(
                     recurse_if_eq(CtrlIfEqEnter(CursorEvent(st, ns, "branch"), ctrl,
                                                 not_dummy, ns),
                                   st.next_slot, ctrl, preallocated_outputs, ns),
                     ns, "join")
         [] ctrl.ctrl \in {"MatchTag", "MatchVal"} ->
              IF ~IsBound(st, <<ctrl.var>>) THEN Unbound(st)
              ELSE CursorEvent(
                     recurse_match(
                       recurse_cases(CursorEvent(st, ns, "branch"), ctrl, MatchNum(st, ctrl),
                                     1, not_dummy, preallocated_outputs, ns, <<>>, <<>>),
                       ctrl, MatchNum(st, ctrl), not_dummy, preallocated_outputs, ns),
                     ns, "join")

\* synthesize::recurse
recurse(st, block, not_dummy, preallocated_outputs, ns) ==
  CursorEvent(
    recurse_ctrl(recurse_ops(BlockEvent(CursorEvent(st, ns, "enter"), ns, not_dummy),
                             block.ops, 1, not_dummy, preallocated_outputs, ns),
                 block.ctrl, not_dummy, preallocated_outputs, ns),
    ns, "exit")

(***************************************************************************)
(* Func, Block, Op and Ctrl (crate::lem)                                   *)
(***************************************************************************)
Op_Call(out, func, inp) == [op |-> "Call", out |-> out, func |-> func, inp |-> inp]
Op_Hash2(img, tag, preimg) == [op |-> "Hash2", img |-> img, tag |-> tag, preimg |-> preimg]
Op_Hash3(img, tag, preimg) == [op |-> "Hash3", img |-> img, tag |-> tag, preimg |-> preimg]
Op_Hash4(img, tag, preimg) == [op |-> "Hash4", img |-> img, tag |-> tag, preimg |-> preimg]
Op_Unhash2(preimg, img) == [op |-> "Unhash2", preimg |-> preimg, img |-> img]
Op_Unhash3(preimg, img) == [op |-> "Unhash3", preimg |-> preimg, img |-> img]
Op_Unhash4(preimg, img) == [op |-> "Unhash4", preimg |-> preimg, img |-> img]
Op_Null(tgt, tag) == [op |-> "Null", tgt |-> tgt, tag |-> tag]
Op_Lit(tgt, lit) == [op |-> "Lit", tgt |-> tgt, lit |-> lit]
Op_Cast(tgt, tag, src) == [op |-> "Cast", tgt |-> tgt, tag |-> tag, src |-> src]
Op_EqTag(tgt, a, b) == [op |-> "EqTag", tgt |-> tgt, a |-> a, b |-> b]
Op_EqVal(tgt, a, b) == [op |-> "EqVal", tgt |-> tgt, a |-> a, b |-> b]
Op_Add(tgt, a, b) == [op |-> "Add", tgt |-> tgt, a |-> a, b |-> b]
Op_Sub(tgt, a, b) == [op |-> "Sub", tgt |-> tgt, a |-> a, b |-> b]
Op_Mul(tgt, a, b) == [op |-> "Mul", tgt |-> tgt, a |-> a, b |-> b]
Op_Div(tgt, a, b) == [op |-> "Div", tgt |-> tgt, a |-> a, b |-> b]
Op_Lt(tgt, a, b) == [op |-> "Lt", tgt |-> tgt, a |-> a, b |-> b]
Op_Trunc(tgt, a, n) == [op |-> "Trunc", tgt |-> tgt, a |-> a, n |-> n]
Op_DivRem64(tgt, a, b) == [op |-> "DivRem64", tgt |-> tgt, a |-> a, b |-> b]
Op_Emit(v) == [op |-> "Emit", v |-> v]
Op_Hide(tgt, sec, pay) == [op |-> "Hide", tgt |-> tgt, sec |-> sec, pay |-> pay]
Op_Open(sec, pay, comm) == [op |-> "Open", sec |-> sec, pay |-> pay, comm |-> comm]

Ctrl_Return(return_vars) == [ctrl |-> "Return", vars |-> return_vars]
Ctrl_IfEq(x, y, eq_block, else_block) ==
  [ctrl |-> "IfEq", x |-> x, y |-> y, eq_block |-> eq_block, else_block |-> else_block]
Ctrl_MatchTag(match_var, cases, def) ==
  [ctrl |-> "MatchTag", var |-> match_var, cases |-> cases, def |-> def]
Ctrl_MatchVal(match_var, cases, def) ==
  [ctrl |-> "MatchVal", var |-> match_var, cases |-> cases, def |-> def]
Case(k, block) == [k |-> k, block |-> block]

Block(ops, ctrl) == [ops |-> ops, ctrl |-> ctrl]

\* The slots a block needs: those of its ops, a callee's included, and the
\* most that any one branch of its control needs (Func::new computes the
\* static count this way).
RECURSIVE BlockSlots(_)
RECURSIVE OpsSlots(_, _)
RECURSIVE CasesSlots(_, _)

OpsSlots(ops, acc) ==
  IF ops = <<>> THEN acc
  ELSE LET op == Head(ops)
           typ == CASE op.op \in {"Hash2", "Unhash2"} -> "hash2"
                    [] op.op \in {"Hash3", "Unhash3"} -> "hash3"
                    [] op.op \in {"Hash4", "Unhash4"} -> "hash4"
                    [] op.op \in {"Hide", "Open"} -> "commitment"
                    [] op.op = "Lt" -> "less_than"
                    [] OTHER -> ""
           callee == IF op.op = "Call" THEN BlockSlots(op.func.body)
                     ELSE SlotsCounterDefault
       IN OpsSlots(Tail(ops),
                   IF typ = "" THEN [t \in DOMAIN acc |-> acc[t] + callee[t]]
                   ELSE consume(acc, typ).next)

CasesSlots(cases, acc) ==
  IF cases = <<>> THEN acc
  ELSE CasesSlots(Tail(cases), SlotsMax(acc, BlockSlots(Head(cases).block)))

BlockSlots(block) ==
  LET ops == OpsSlots(block.ops, SlotsCounterDefault)
      ctrl == block.ctrl
      branches ==
        CASE ctrl.ctrl = "Return" -> SlotsCounterDefault
          [] ctrl.ctrl = "IfEq" ->
               SlotsMax(BlockSlots(ctrl.eq_block), BlockSlots(ctrl.else_block))
          [] OTHER ->
               CasesSlots(ctrl.cases,
                          IF ctrl.def.k = "Some" THEN BlockSlots(ctrl.def.v)
                          ELSE SlotsCounterDefault)
  IN [t \in DOMAIN ops |-> ops[t] + branches[t]]

\* Func::new
Func(name, input_params, output_size, body) ==
  [name |-> name, input_params |-> input_params, output_size |-> output_size,
   body |-> body, slot |-> BlockSlots(body)]

(***************************************************************************)
(* Func::num_constraints                                                   *)
(***************************************************************************)
RECURSIVE nc_recurse(_, _)
RECURSIVE nc_ops(_, _, _)
RECURSIVE nc_cases(_, _, _)

\* The loop over the ops of a block: acc is the count so far and the set of
\* the field elements that will be constants.
nc_ops(ops, i, acc) ==
  IF i > Len(ops) THEN acc
  ELSE
    LET op == ops[i]
        k == op.op
        callee == nc_recurse(op.func.body, acc.globals)
    IN nc_ops(ops, i + 1,
         CASE k = "Call" -> [n |-> acc.n + callee.n, globals |-> callee.globals]
           [] k = "Null" -> [n |-> acc.n, globals |-> acc.globals \cup {op.tag, F_ZERO}]
           [] k = "Lit" ->
                [n |-> acc.n, globals |-> acc.globals \cup {TagField.Sym, op.lit.hash}]
           [] k = "Cast" -> [n |-> acc.n, globals |-> acc.globals \cup {op.tag}]
           [] k \in {"EqTag", "EqVal"} ->
                [n |-> acc.n + 5, globals |-> acc.globals \cup {TagField.Num}]
           [] k \in {"Add", "Sub", "Mul"} ->
                [n |-> acc.n + 1, globals |-> acc.globals \cup {TagField.Num}]
           [] k = "Div" -> [n |-> acc.n + 5, globals |-> acc.globals \cup {F_ONE}]
           [] k = "Lt" -> [n |-> acc.n + 2, globals |-> acc.globals \cup {TagField.Num}]
           [] k = "Trunc" -> [n |-> acc.n + 389, globals |-> acc.globals \cup {TagField.Num}]
           [] k = "DivRem64" ->
                [n |-> acc.n + 197, globals |-> acc.globals \cup {TagField.Num}]
           [] k = "Emit" -> acc
           [] k = "Hash2" -> [n |-> acc.n + 4, globals |-> acc.globals \cup {op.tag}]
           [] k = "Hash3" -> [n |-> acc.n + 6, globals |-> acc.globals \cup {op.tag}]
           [] k = "Hash4" -> [n |-> acc.n + 8, globals |-> acc.globals \cup {op.tag}]
           [] k \in {"Unhash2", "Unhash3", "Unhash4"} ->
                [n |-> acc.n + 1, globals |-> acc.globals]
           [] k = "Hide" ->
                [n |-> acc.n + 4,
                 globals |-> acc.globals \cup {TagField.Num, TagField.Comm}]
           [] k = "Open" ->
                [n |-> acc.n + 2,
                 globals |-> acc.globals \cup {TagField.Num, TagField.Comm}])

nc_cases(cases, i, acc) ==
  IF i > Len(cases) THEN acc
  ELSE LET r == nc_recurse(cases[i].block, acc.globals)
       IN nc_cases(cases, i + 1, [n |-> acc.n + r.n, globals |-> r.globals])

\* num_constraints::recurse: the count of the block, and the globals after it.
nc_recurse(block, globals) ==
  LET ops == nc_ops(block.ops, 1, [n |-> 0, globals |-> globals])
      ctrl == block.ctrl
  IN CASE ctrl.ctrl = "Return" -> [n |-> ops.n + 2 * Len(ctrl.vars), globals |-> ops.globals]
       [] ctrl.ctrl = "IfEq" ->
            LET t == nc_recurse(ctrl.eq_block, ops.globals)
                f == nc_recurse(ctrl.else_block, t.globals)
            IN [n |-> ops.n + 5 + t.n + f.n, globals |-> f.globals]
       [] OTHER ->
            LET cs == nc_cases(ctrl.cases, 1,
                               [n |-> ops.n + 2 * Len(ctrl.cases) + 1, globals |-> ops.globals])
                d == nc_recurse(ctrl.def.v, cs.globals)
            IN IF ctrl.def.k = "Some"
               THEN [n |-> cs.n + 1 + Len(ctrl.cases) + d.n, globals |-> d.globals]
               ELSE cs

num_constraints(func) ==
  LET slot_constraints == 289 * func.slot.hash2
                            + 337 * func.slot.hash3
                            + 388 * func.slot.hash4
                            + 265 * func.slot.commitment
                            + 391 * func.slot.less_than
      r == nc_recurse(func.body, {})
  IN slot_constraints + r.n + Cardinality(r.globals)

\* The constants num_constraints has collected when it returns.
nc_globals(func) == nc_recurse(func.body, {}).globals

(***************************************************************************)
(* Func::synthesize                                                        *)
(***************************************************************************)
\* The statements of synthesize up to the slots of slot_type, in the order
\* hash2, hash3, hash4, commitment, less_than.
SynSlots(st, func, frame, slot_type) ==
  LET r == allocate_slots(st, frame.preimages[slot_type], slot_type, func.slot[slot_type])
  IN [r.st EXCEPT !.slots[slot_type] = r.slots]

\* The recurse call that ends synthesize.
SynBody(st, func, frame, preallocated_outputs) ==
  IF st.err # "ok" THEN st
  ELSE recurse([st EXCEPT !.call_outputs = frame.preimages.call_outputs],
               func.body, TRUE, preallocated_outputs, <<>>)

\* synthesize, from the first statement to the last.
synthesize(func, frame) ==
  LET inp == allocate_input(NewContext(<<>>), func, frame)
      out == allocate_output(inp, frame)
      h2 == SynSlots(out.st, func, frame, "hash2")
      h3 == SynSlots(h2, func, frame, "hash3")
      h4 == SynSlots(h3, func, frame, "hash4")
      cm == SynSlots(h4, func, frame, "commitment")
      lt == SynSlots(cm, func, frame, "less_than")
  IN SynBody(lt, func, frame, out.outs)

(***************************************************************************)
(* The functions and the frames synthesize is run on                       *)
(***************************************************************************)
N0 == ZPtr(TagField.Num, 0)
N1 == ZPtr(TagField.Num, 1)
N2 == ZPtr(TagField.Num, 2)
C1 == ZPtr(TagField.Cons, 1)
Nil0 == ZPtr(TagField.Nil, 0)

N3 == ZPtr(TagField.Num, 3)
N7 == ZPtr(TagField.Num, 7)
N9 == ZPtr(TagField.Num, 9)
N34 == ZPtr(TagField.Num, 34)

\* t = a / b
FuncDiv ==
  Func("div", <<"a", "b">>, 1,
       Block(<<Op_Div("t", "a", "b")>>, Ctrl_Return(<<"t">>)))

\* Arithmetic, comparisons and a truncation.
FuncArith ==
  Func("arith", <<"a", "b">>, 1,
       Block(<<Op_Add("s", "a", "b"), Op_Sub("d", "a", "b"), Op_Mul("m", "s", "d"),
               Op_EqTag("e", "a", "b"), Op_EqVal("v", "a", "b"), Op_Lt("l", "a", "b"),
               Op_Trunc("t", "m", 3), Op_Emit("t")>>,
             Ctrl_Return(<<"l">>)))

\* (q, r) = divrem64(a, b)
FuncDivRem ==
  Func("divrem", <<"a", "b">>, 2,
       Block(<<Op_DivRem64(<<"q", "r">>, "a", "b")>>, Ctrl_Return(<<"q", "r">>)))

\* car(cons(a, b))
FuncCons ==
  Func("cons", <<"a", "b">>, 1,
       Block(<<Op_Hash2("c", TagField.Cons, <<"a", "b">>),
               Op_Unhash2(<<"x", "y">>, "c")>>,
             Ctrl_Return(<<"x">>)))

\* The hashes of three and of four pointers, built and taken apart.
FuncHash34 ==
  Func("hash34", <<"a", "b">>, 1,
       Block(<<Op_Hash3("f", TagField.Fun, <<"a", "b", "a">>),
               Op_Unhash3(<<"x", "y", "z">>, "f"),
               Op_Hash4("t", TagField.Thunk, <<"a", "b", "x", "y">>),
               Op_Unhash4(<<"p", "q", "r", "s">>, "t")>>,
             Ctrl_Return(<<"p">>)))

\* open(hide(s, p))
FuncCommit ==
  Func("commit", <<"s", "p">>, 2,
       Block(<<Op_Hide("c", "s", "p"), Op_Open("s2", "p2", "c")>>,
             Ctrl_Return(<<"s2", "p2">>)))

\* if a = b then cons(a, b) else a < b
FuncIfEq ==
  Func("ifeq", <<"a", "b">>, 1,
       Block(<<>>,
             Ctrl_IfEq("a", "b",
               Block(<<Op_Hash2("c", TagField.Cons, <<"a", "b">>)>>, Ctrl_Return(<<"c">>)),
               Block(<<Op_Null("n", TagField.Nil), Op_Lt("l", "a", "b")>>,
                     Ctrl_Return(<<"l">>)))))

\* A match on the tag of a, with a default.
FuncMatchTag ==
  Func("matchtag", <<"a", "b">>, 1,
       Block(<<>>,
             Ctrl_MatchTag("a",
               <<Case(TagField.Num,
                      Block(<<Op_Add("s", "a", "b")>>, Ctrl_Return(<<"s">>))),
                 Case(TagField.Cons,
                      Block(<<Op_Unhash2(<<"x", "y">>, "a")>>, Ctrl_Return(<<"x">>)))>>,
               Some(Block(<<Op_Lit("k", ZPtr(TagField.Sym, 5))>>, Ctrl_Return(<<"k">>))))))

\* A match on the value of a, without a default.
FuncMatchVal ==
  Func("matchval", <<"a", "b">>, 1,
       Block(<<>>,
             Ctrl_MatchVal("a",
               <<Case(0, Block(<<>>, Ctrl_Return(<<"b">>))),
                 Case(1, Block(<<Op_Cast("t", TagField.Char, "b")>>, Ctrl_Return(<<"t">>)))>>,
               None)))

\* A call of ifeq, and a cons after it.
FuncCall ==
  Func("call", <<"x", "y">>, 1,
       Block(<<Op_Call(<<"r">>, FuncIfEq, <<"x", "y">>),
               Op_Hash2("z", TagField.Cons, <<"r", "x">>)>>,
             Ctrl_Return(<<"z">>)))

\* (+ (* a 3) b)
FuncExample ==
  Func("example", <<"a", "b">>, 1,
       Block(<<Op_Lit("three", N3), Op_Mul("m", "a", "three"), Op_Add("r", "m", "b")>>,
             Ctrl_Return(<<"r">>)))

\* A call in each block of an IfEq: one of the two is on a virtual path.
FuncCallIf ==
  Func("callif", <<"x", "y">>, 1,
       Block(<<>>,
             Ctrl_IfEq("x", "y",
               Block(<<Op_Hash2("c", TagField.Cons, <<"x", "y">>),
                       Op_Call(<<"r">>, FuncIfEq, <<"x", "y">>)>>,
                     Ctrl_Return(<<"r">>)),
               Block(<<Op_Call(<<"q">>, FuncDiv, <<"x", "y">>)>>, Ctrl_Return(<<"q">>)))))

\* Paths of one, three, two and three conses: a cons, then an IfEq with two
\* conses in one block and, in the other, a cons and a match with a cons in
\* one of its cases.
FuncPaths ==
  Func("paths", <<"a", "b">>, 1,
       Block(<<Op_Hash2("c", TagField.Cons, <<"a", "b">>)>>,
             Ctrl_IfEq("a", "b",
               Block(<<Op_Hash2("d", TagField.Cons, <<"c", "a">>),
                       Op_Hash2("e", TagField.Cons, <<"d", "b">>)>>,
                     Ctrl_Return(<<"e">>)),
               Block(<<Op_Hash2("f", TagField.Cons, <<"b", "a">>)>>,
                     Ctrl_MatchTag("b",
                       <<Case(TagField.Num, Block(<<>>, Ctrl_Return(<<"f">>))),
                         Case(TagField.Cons,
                              Block(<<Op_Hash2("g", TagField.Cons, <<"f", "c">>)>>,
                                    Ctrl_Return(<<"g">>)))>>,
                       None)))))

\* a < b
FuncLt ==
  Func("lt", <<"a", "b">>, 1,
       Block(<<Op_Lt("l", "a", "b")>>, Ctrl_Return(<<"l">>)))

\* The ends of the two signed halves of the field.
SignedEnds == {F_ZERO, F_ONE, most_positive, most_negative, MODULUS - 1}

\* (a + b) + b: two Add ops in one block
FuncTwoAdds ==
  Func("twoadds", <<"a", "b">>, 1,
       Block(<<Op_Add("s", "a", "b"), Op_Add("t", "s", "b")>>, Ctrl_Return(<<"t">>)))

Funcs ==
  <<FuncDiv, FuncArith, FuncDivRem, FuncCons, FuncHash34, FuncCommit, FuncIfEq,
    FuncMatchTag, FuncMatchVal, FuncCall, FuncExample, FuncCallIf, FuncPaths, FuncLt,
    FuncTwoAdds>>

\* The universe frames are drawn from: the pointers of the inputs and of the
\* outputs, the entries of each slot type, the slot types whose number of
\* entries may be off by one, and the call outputs.
Universe(inp, out, data, off, calls) ==
  [inp |-> inp, out |-> out, data |-> data, off |-> off, calls |-> calls]

NoData ==
  [hash2 |-> {None}, hash3 |-> {None}, hash4 |-> {None}, commitment |-> {None},
   less_than |-> {None}]

\* The sequences of entries of one slot type: as many as the Func has slots,
\* or one more or one less where the universe says so.
SlotSeqs(func, u, typ) ==
  LET n == func.slot[typ]
  IN [1..n -> u.data[typ]]
       \cup (IF typ \in u.off
             THEN {[i \in 1..(n + 1) |-> None]}
                    \cup (IF n > 0 THEN {[i \in 1..(n - 1) |-> None]} ELSE {})
             ELSE {})

Frames(func, u) ==
  { [input |-> input, output |-> output,
     preimages |-> [hash2 |-> h2, hash3 |-> h3, hash4 |-> h4, commitment |-> cm,
                    less_than |-> lt, call_outputs |-> calls]] :
      input \in [1..Len(func.input_params) -> u.inp],
      output \in [1..func.output_size -> u.out],
      h2 \in SlotSeqs(func, u, "hash2"),
      h3 \in SlotSeqs(func, u, "hash3"),
      h4 \in SlotSeqs(func, u, "hash4"),
      cm \in SlotSeqs(func, u, "commitment"),
      lt \in SlotSeqs(func, u, "less_than"),
      calls \in u.calls }

\* The frame's number of entries equals the Func's number of slots, for
\* every slot type.
CountsMatch(func, frame) ==
  \A i \in DOMAIN SlotTypes :
    Len(frame.preimages[SlotTypes[i]]) = func.slot[SlotTypes[i]]

UniverseOf(func) ==
  CASE func.name = "div" ->
         Universe({N0, N1, N2}, {N0, N1}, NoData, {"hash2", "less_than"}, {<<>>})
    [] func.name = "arith" ->
         Universe({N0, N1, C1}, {N0, N1},
                  [NoData EXCEPT !.less_than =
                     {None, Some(FPair(0, 1)), Some(FPair(1, 0)), Some(FPair(1, 1))}],
                  {"less_than"}, {<<>>})
    [] func.name = "divrem" ->
         Universe({N0, N1, N2}, {N0, N1}, NoData, {}, {<<>>})
    [] func.name = "cons" ->
         Universe({N0, N1}, {N0, N1},
                  [NoData EXCEPT !.hash2 =
                     {None, Some(PtrVec(<<N0, N1>>)), Some(PtrVec(<<N1, N1>>))}],
                  {"hash2", "hash3"}, {<<>>})
    [] func.name = "hash34" ->
         Universe({N0, N1}, {N0},
                  [NoData EXCEPT !.hash3 = {None, Some(PtrVec(<<N0, N1, N0>>))},
                                 !.hash4 = {None, Some(PtrVec(<<N0, N1, N0, N1>>))}],
                  {"hash4"}, {<<>>})
    [] func.name = "commit" ->
         Universe({N0, N1, C1, Nil0}, {N1, C1},
                  [NoData EXCEPT !.commitment =
                     {None, Some(FPtr(0, N1)), Some(FPtr(1, N1)), Some(FPtr(1, C1))}],
                  {"commitment"}, {<<>>})
    [] func.name = "ifeq" ->
         Universe({N0, N1}, {N0, N1},
                  [NoData EXCEPT !.hash2 = {None, Some(PtrVec(<<N1, N1>>))},
                                 !.less_than = {None, Some(FPair(0, 1))}],
                  {"hash2", "less_than"}, {<<>>})
    [] func.name = "matchtag" ->
         Universe({N0, N1, C1, Nil0}, {N0, N1},
                  [NoData EXCEPT !.hash2 = {None, Some(PtrVec(<<N0, N1>>))}],
                  {"hash2"}, {<<>>})
    [] func.name = "matchval" ->
         Universe({N0, N1, N2}, {N0, N1}, NoData, {"commitment"}, {<<>>})
    [] func.name = "call" ->
         Universe({N0, N1}, {N0},
                  [NoData EXCEPT !.hash2 = {None, Some(PtrVec(<<N1, N1>>))},
                                 !.less_than = {None, Some(FPair(0, 1))}],
                  {}, {<<>>, <<<<N0>>>>, <<<<N1>>>>, <<<<N0, N1>>>>})
    [] func.name = "example" ->
         Universe({N7, N9}, {N0, N34}, NoData, {}, {<<>>})
    [] func.name = "callif" ->
         Universe({N0, N1}, {N0},
                  [NoData EXCEPT !.hash2 = {None, Some(PtrVec(<<N1, N1>>))},
                                 !.less_than = {None, Some(FPair(0, 1))}],
                  {}, {<<>>, <<<<N0>>>>, <<<<N1>>>>, <<<<N0>>, <<N1>>>>})
    [] func.name = "paths" ->
         Universe({N0, N1, C1}, {N0},
                  [NoData EXCEPT !.hash2 = {None, Some(PtrVec(<<N0, N1>>))}],
                  {"hash2"}, {<<>>})
    [] func.name = "lt" ->
         Universe({ZPtr(TagField.Num, x) : x \in SignedEnds}, {N0, N1},
                  [NoData EXCEPT !.less_than =
                     {None} \cup {Some(FPair(x, y)) : x \in SignedEnds, y \in SignedEnds}],
                  {}, {<<>>})
    [] func.name = "twoadds" ->
         Universe({N0, N1}, {N0, N1, N2}, NoData, {}, {<<>>})

(***************************************************************************)
(* Spec: one synthesize call, statement by statement.                      *)
(***************************************************************************)
SynOthers == <<fld, cache, sel, dr, pair, tr, vp, sl>>

SynInit ==
  /\ \E i \in DOMAIN Funcs : \E frame \in Frames(Funcs[i], UniverseOf(Funcs[i])) :
       syn = [pc |-> "start", func |-> Funcs[i], frame |-> frame,
              st |-> NewContext(<<>>), outs |-> <<>>]
  /\ fld = Idle /\ cache = Idle /\ sel = Idle /\ dr = Idle /\ pair = Idle /\ tr = Idle /\ vp = Idle /\ sl = Idle

\* Where synthesize stands after a statement: at the statement's label, or
\* out by a panic or an Err.
SynAt(st, pc) ==
  IF st.err = "ok" THEN pc
  ELSE IF SubSeq(st.err, 1, 5) = "panic" THEN "panicked" ELSE "failed"

SynAllocateInput ==
  /\ syn.pc = "start"
  /\ LET st == allocate_input(syn.st, syn.func, syn.frame)
     IN syn' = [syn EXCEPT !.st = st, !.pc = SynAt(st, "input")]
  /\ UNCHANGED SynOthers

SynAllocateOutput ==
  /\ syn.pc = "input"
  /\ LET r == allocate_output(syn.st, syn.frame)
     IN syn' = [syn EXCEPT !.st = r.st, !.outs = r.outs, !.pc = SynAt(r.st, "output")]
  /\ UNCHANGED SynOthers

\* The slot type synthesize allocates after the statement at pc.
SlotTypeAfter(pc) ==
  CASE pc = "output" -> "hash2"
    [] pc = "hash2" -> "hash3"
    [] pc = "hash3" -> "hash4"
    [] pc = "hash4" -> "commitment"
    [] pc = "commitment" -> "less_than"

SynAllocateSlots ==
  /\ syn.pc \in {"output", "hash2", "hash3", "hash4", "commitment"}
  /\ LET typ == SlotTypeAfter(syn.pc)
         st == SynSlots(syn.st, syn.func, syn.frame, typ)
     IN syn' = [syn EXCEPT !.st = st, !.pc = SynAt(st, typ)]
  /\ UNCHANGED SynOthers

SynRecurse ==
  /\ syn.pc = "less_than"
  /\ LET st == SynBody(syn.st, syn.func, syn.frame, syn.outs)
     IN syn' = [syn EXCEPT !.st = st, !.pc = SynAt(st, "done")]
  /\ UNCHANGED SynOthers

Next == SynAllocateInput \/ SynAllocateOutput \/ SynAllocateSlots \/ SynRecurse

Spec == SynInit /\ [][Next]_vars

\* The number of constraints the sink holds.
RECURSIVE SumConstraints(_)
SumConstraints(ev) ==
  IF ev = <<>> THEN 0 ELSE Head(ev).n + SumConstraints(Tail(ev))

\* C1: for every Func and every frame whose numbers of entries match, the
\* number num_constraints computes is the number of constraints synthesize
\* has added when it returns.
C1_CountsAgree ==
  (syn.pc = "done" /\ CountsMatch(syn.func, syn.frame))
    => num_constraints(syn.func) = SumConstraints(syn.st.ev)

\* The constraints of the slots of the types synthesize allocates before typ.
SlotConstraints(typ) ==
  CASE typ = "hash2" -> HASH2_CONSTRAINTS
    [] typ = "hash3" -> HASH3_CONSTRAINTS
    [] typ = "hash4" -> HASH4_CONSTRAINTS
    [] typ = "commitment" -> COMMITMENT_CONSTRAINTS
    [] typ = "less_than" -> 1 + IS_NEGATIVE_CONSTRAINTS + 1

RECURSIVE SlotConstraintsBefore(_, _)
SlotConstraintsBefore(func, i) ==
  IF i <= 1 THEN 0
  ELSE SlotConstraintsBefore(func, i - 1)
         + SlotConstraints(SlotTypes[i - 1]) * func.slot[SlotTypes[i - 1]]

\* The first slot type, in the order of allocation, whose number of entries
\* is not the Func's number of slots.
FirstMismatch(func, frame) ==
  CHOOSE i \in DOMAIN SlotTypes :
    /\ Len(frame.preimages[SlotTypes[i]]) # func.slot[SlotTypes[i]]
    /\ \A j \in 1..(i - 1) : Len(frame.preimages[SlotTypes[j]]) = func.slot[SlotTypes[j]]

AssertionMessage == "panic: collected preimages not equal to the number of available slots"

\* C3 as claimed: a frame whose numbers of entries do not match never gets
\* past the allocation of the slots, and no constraint is emitted for it.
C3_RejectedBeforeAnyConstraint ==
  ~CountsMatch(syn.func, syn.frame)
    => /\ syn.pc \notin {"less_than", "done"}
       /\ SumConstraints(syn.st.ev) = 0

\* C3, amended: such a frame is rejected by the assertion of allocate_slots
\* for the first slot type that does not match, before any constraint of
\* that type, of a later type or of the body is emitted; the constraints of
\* the slots of the earlier types have been emitted by then.
C3_RejectedAtFirstMismatch ==
  ~CountsMatch(syn.func, syn.frame)
    => LET i == FirstMismatch(syn.func, syn.frame)
       IN /\ syn.pc \notin {"done", "failed"}
          /\ \A j \in i..Len(SlotTypes) : syn.pc # SlotTypes[j]
          /\ SumConstraints(syn.st.ev) <= SlotConstraintsBefore(syn.func, i)
          /\ syn.pc = "panicked"
               => /\ syn.st.err = AssertionMessage
                  /\ SumConstraints(syn.st.ev) = SlotConstraintsBefore(syn.func, i)

\* A frame with one hash3 entry too many has been rejected after the
\* constraints of two hash2 slots.
C3_Witness ==
  /\ syn.pc = "panicked"
  /\ syn.func.name = "cons"
  /\ Len(syn.frame.preimages.hash2) = 2
  /\ Len(syn.frame.preimages.hash3) = 1
  /\ syn.st.err = AssertionMessage
  /\ SumConstraints(syn.st.ev) = 2 * HASH2_CONSTRAINTS

\* The witness values of a bound pointer.
ValueOf(ptr) == ZPtr(ptr.tag.v, ptr.hash.v)

\* Every implication of the Hide and of the Open holds under the witness.
HideOpenSatisfied ==
  \A i \in DOMAIN syn.st.ev :
    syn.st.ev[i].k = "implies_equal" => syn.st.ev[i].sat

\* C6: when the constraints of a Hide of (s, p) and of the Open of its
\* result hold, the pointers the Open binds are s and p.
C6_HideOpenRoundTrip ==
  (syn.pc = "done" /\ syn.func.name = "commit" /\ HideOpenSatisfied)
    => /\ ValueOf(syn.st.bound["s2"]) = syn.frame.input[1]
       /\ ValueOf(syn.st.bound["p2"]) = syn.frame.input[2]

\* A payload that is a cons has been hidden under the secret 1 and opened.
C6_Witness ==
  /\ syn.pc = "done"
  /\ syn.func.name = "commit"
  /\ HideOpenSatisfied
  /\ syn.frame.input = <<N1, C1>>
  /\ syn.frame.preimages.commitment[1] = Some(FPtr(1, C1))
  /\ ValueOf(syn.st.bound["c"]).tag = TagField.Comm
  /\ ValueOf(syn.st.bound["s2"]) = N1
  /\ ValueOf(syn.st.bound["p2"]) = C1

(***************************************************************************)
(* SpecPair: synthesize on two frames of one Func.                         *)
(***************************************************************************)
\* The frames of the pairs: inputs that take either branch, entries present
\* and absent, and the call outputs a concrete call needs or lacks.
PairUniverseOf(func) ==
  CASE func.name = "div" -> Universe({N0, N1, N2}, {N0}, NoData, {}, {<<>>})
    [] func.name = "arith" ->
         Universe({N0, N1, C1}, {N0},
                  [NoData EXCEPT !.less_than = {None, Some(FPair(0, 1))}], {}, {<<>>})
    [] func.name = "divrem" -> Universe({N0, N1, N2}, {N0}, NoData, {}, {<<>>})
    [] func.name = "cons" ->
         Universe({N0, N1}, {N0},
                  [NoData EXCEPT !.hash2 = {None, Some(PtrVec(<<N0, N1>>))}], {}, {<<>>})
    [] func.name = "hash34" ->
         Universe({N0, N1}, {N0},
                  [NoData EXCEPT !.hash3 = {None, Some(PtrVec(<<N0, N1, N0>>))}], {}, {<<>>})
    [] func.name = "commit" ->
         Universe({N1, C1}, {N1},
                  [NoData EXCEPT !.commitment = {None, Some(FPtr(1, C1))}], {}, {<<>>})
    [] func.name = "ifeq" ->
         Universe({N0, N1}, {N0},
                  [NoData EXCEPT !.hash2 = {None, Some(PtrVec(<<N1, N1>>))},
                                 !.less_than = {None, Some(FPair(0, 1))}], {}, {<<>>})
    [] func.name = "matchtag" ->
         Universe({N0, C1, Nil0}, {N0},
                  [NoData EXCEPT !.hash2 = {None, Some(PtrVec(<<N0, N1>>))}], {}, {<<>>})
    [] func.name = "matchval" -> Universe({N0, N1, N2}, {N0}, NoData, {}, {<<>>})
    [] func.name = "call" ->
         Universe({N0, N1}, {N0},
                  [NoData EXCEPT !.less_than = {None, Some(FPair(0, 1))}], {},
                  {<<>>, <<<<N0>>>>, <<<<N1>>>>})
    [] func.name = "example" ->
         Universe({N7, N9}, {N0, N34}, NoData, {}, {<<>>})
    [] func.name = "callif" ->
         Universe({N0, N1}, {N0},
                  [NoData EXCEPT !.hash2 = {None, Some(PtrVec(<<N1, N1>>))}],
                  {}, {<<>>, <<<<N0>>>>})
    [] func.name = "paths" ->
         Universe({N0, C1}, {N0},
                  [NoData EXCEPT !.hash2 = {None}], {}, {<<>>})
    [] func.name = "lt" ->
         Universe({N0, ZPtr(TagField.Num, most_negative)}, {N0},
                  [NoData EXCEPT !.less_than = {None, Some(FPair(0, most_negative))}],
                  {}, {<<>>})
    [] func.name = "twoadds" -> Universe({N0, N1}, {N0}, NoData, {}, {<<>>})

PairOthers == <<fld, cache, sel, dr, syn, tr, vp, sl>>

PairInit ==
  /\ \E i \in DOMAIN Funcs :
       \E f1 \in Frames(Funcs[i], PairUniverseOf(Funcs[i])),
          f2 \in Frames(Funcs[i], PairUniverseOf(Funcs[i])) :
         pair = [pc |-> "start", func |-> Funcs[i], frame1 |-> f1, frame2 |-> f2,
                 r1 |-> NewContext(<<>>), r2 |-> NewContext(<<>>)]
  /\ fld = Idle /\ cache = Idle /\ sel = Idle /\ dr = Idle /\ syn = Idle /\ tr = Idle /\ vp = Idle /\ sl = Idle

PairSynthesizeFirst ==
  /\ pair.pc = "start"
  /\ pair' = [pair EXCEPT !.pc = "first", !.r1 = synthesize(pair.func, pair.frame1)]
  /\ UNCHANGED PairOthers

PairSynthesizeSecond ==
  /\ pair.pc = "first"
  /\ pair' = [pair EXCEPT !.pc = "both", !.r2 = synthesize(pair.func, pair.frame2)]
  /\ UNCHANGED PairOthers

PairNext == PairSynthesizeFirst \/ PairSynthesizeSecond

SpecPair == PairInit /\ [][PairNext]_vars

\* The shape of what the sink received: the events in order, each with its
\* gadget, its name and its number of constraints, and the number of
\* variables; the witness left out.
Shape(st) ==
  [ev |-> [i \in DOMAIN st.ev |->
             [k |-> st.ev[i].k, name |-> st.ev[i].name, n |-> st.ev[i].n]],
   nv |-> st.nv]

BothReturned == pair.pc = "both" /\ pair.r1.err = "ok" /\ pair.r2.err = "ok"

\* C2: on any two frames of one Func on which synthesize returns, the sink
\* receives the same allocations and constraints in the same order.
C2_SameShape ==
  BothReturned => Shape(pair.r1) = Shape(pair.r2)

\* The first frame takes the equal branch with its hash2 entry present, the
\* second the other branch with that entry absent.
C2_Witness ==
  /\ BothReturned
  /\ pair.func.name = "ifeq"
  /\ pair.frame1.input[1] = pair.frame1.input[2]
  /\ pair.frame2.input[1] # pair.frame2.input[2]
  /\ pair.frame1.preimages.hash2[1] # None
  /\ pair.frame2.preimages.hash2[1] = None
  /\ Len(pair.r1.ev) > 10

\* C5: on any two frames of one Func on which synthesize returns, every
\* slot-consuming op, in the order of the traversal, reads the same slot.
C5_SlotIndexFixed ==
  BothReturned => pair.r1.log = pair.r2.log

\* The callee's branches are concrete in one frame and virtual in the
\* other, and the cons after the call reads hash2 slot 1 in both.
C5_Witness ==
  /\ BothReturned
  /\ pair.func.name = "call"
  /\ pair.frame1.input[1] = pair.frame1.input[2]
  /\ pair.frame2.input[1] # pair.frame2.input[2]
  /\ Len(pair.r1.log) = 3
  /\ pair.r1.log[3].typ = "hash2"
  /\ pair.r1.log[3].idx = 1

\* Every constraint the sink holds is satisfied by the witness.
Satisfied(st) == \A i \in DOMAIN st.ev : st.ev[i].sat

\* C11: the body (+ (* a 3) b) synthesized with a = 9 and b = 7 binds the
\* number 34 to the returned variable, and its constraints are satisfied
\* exactly when the frame's output pointer is the number 34.
C11_Example ==
  (syn.pc = "done" /\ syn.func.name = "example" /\ syn.frame.input = <<N9, N7>>)
    => /\ ValueOf(syn.st.bound["r"]) = N34
       /\ Satisfied(syn.st) <=> syn.frame.output = <<N34>>

\* The example has been synthesized with the output 34 and is satisfied.
C11_Witness ==
  /\ syn.pc = "done"
  /\ syn.func.name = "example"
  /\ syn.frame.input = <<N9, N7>>
  /\ syn.frame.output = <<N34>>
  /\ Satisfied(syn.st)
  /\ syn.st.bound["m"].hash.v = 27

\* C12: to_u16 .. to_u128 return Some exactly when every byte of the encoding
\* above the width is zero, and then the element's integer value; from_uN
\* followed by to_uN returns Some of the integer; the unchecked conversions
\* return the bits of the element below the width.
C12_Coercions ==
  /\ fld.pc = "coerced"
       => /\ fld.res.k = "Some"
               <=> \A i \in (UintBytes(fld.kind) + 1)..REPR_LEN : to_bytes(fld.f)[i] = 0
          /\ fld.res.k = "Some" => fld.res.v = fld.f
  /\ fld.pc = "lowered" => fld.res = Some(fld.x)
  /\ fld.pc = "truncated" => fld.x = fld.f % Pow(BYTE_BASE, UintBytes(fld.kind))

\* An element that fits a u128 and no u64 has been refused by to_u64.
C12_Witness ==
  /\ fld.pc = "coerced"
  /\ fld.kind = "u64"
  /\ fld.f = Pow(BYTE_BASE, U64_BYTES)
  /\ fld.res = None

\* C13: to_bytes gives the little-endian encoding of the element's integer
\* value in as many bytes as the representation has: byte i is the i-th
\* digit of the value, and the encoding of from_u64(x) is the 8 little-endian
\* bytes of x followed by zero bytes.
C13_CanonicalEncoding ==
  /\ fld.pc \in {"bytes", "liftedbytes"}
       => /\ Len(fld.bytes) = REPR_LEN
          /\ \A i \in 1..Len(fld.bytes) :
               fld.bytes[i] = (fld.f \div Pow(BYTE_BASE, i - 1)) % BYTE_BASE
          /\ LeValue(fld.bytes) = fld.f
  /\ (fld.pc = "liftedbytes" /\ fld.kind = "u64")
       => fld.bytes = u64_to_le_bytes(fld.x) \o [i \in 1..(REPR_LEN - U64_BYTES) |-> 0]

\* The largest u64 has been encoded.
C13_Witness ==
  /\ fld.pc = "liftedbytes"
  /\ fld.kind = "u64"
  /\ fld.x = Pow(BYTE_BASE, U64_BYTES) - 1
  /\ fld.bytes[U64_BYTES] = 1
  /\ fld.bytes[U64_BYTES + 1] = 0

\* C14: for every Func, the constants num_constraints collects are the
\* values synthesize has allocated through the constant cache when it
\* returns.
C14_ConstantsAgree ==
  (syn.pc = "done" /\ CountsMatch(syn.func, syn.frame))
    => DOMAIN syn.st.ga = nc_globals(syn.func)

\* The namespace of a block of the control whose namespace is ns.
IsBranchOf(ns, child) == Len(child) = Len(ns) + 1 /\ SubSeq(child, 1, Len(ns)) = ns

\* Where the control joined at j branched.
BranchPoint(cur, j) ==
  CHOOSE b \in 1..j :
    /\ cur[b].what = "branch" /\ cur[b].ns = cur[j].ns
    /\ \A c \in (b + 1)..j : ~(cur[c].what = "branch" /\ cur[c].ns = cur[j].ns)

\* The entries into, or the exits from, the blocks of the control joined at j.
BranchEvents(cur, j, what) ==
  { k \in BranchPoint(cur, j)..j : cur[k].what = what /\ IsBranchOf(cur[j].ns, cur[k].ns) }

\* C15: at every IfEq, MatchTag and MatchVal every block starts from the
\* slot counter held where the control branches, and after the control the
\* counter is, for each slot type, the largest of the blocks' final counters.
C15_BranchCursors ==
  \A j \in DOMAIN syn.st.cur :
    syn.st.cur[j].what = "join"
      => /\ \A k \in BranchEvents(syn.st.cur, j, "enter") :
              syn.st.cur[k].cursor = syn.st.cur[BranchPoint(syn.st.cur, j)].cursor
         /\ Cardinality(BranchEvents(syn.st.cur, j, "exit"))
              = Cardinality(BranchEvents(syn.st.cur, j, "enter"))
         /\ \A i \in DOMAIN SlotTypes :
              /\ \A k \in BranchEvents(syn.st.cur, j, "exit") :
                   syn.st.cur[k].cursor[SlotTypes[i]] <= syn.st.cur[j].cursor[SlotTypes[i]]
              /\ \E k \in BranchEvents(syn.st.cur, j, "exit") :
                   syn.st.cur[k].cursor[SlotTypes[i]] = syn.st.cur[j].cursor[SlotTypes[i]]

\* An IfEq whose blocks use one hash2 slot and one less_than slot has been
\* joined: each block started from the empty counter and the counter after
\* it holds both.
C15_Witness ==
  /\ syn.pc = "done"
  /\ syn.func.name = "ifeq"
  /\ \E j \in DOMAIN syn.st.cur :
       /\ syn.st.cur[j].what = "join"
       /\ Cardinality(BranchEvents(syn.st.cur, j, "exit")) = 2
       /\ syn.st.cur[BranchPoint(syn.st.cur, j)].cursor = SlotsCounterDefault
       /\ syn.st.cur[j].cursor.hash2 = 1
       /\ syn.st.cur[j].cursor.less_than = 1
       /\ \E k \in BranchEvents(syn.st.cur, j, "exit") : syn.st.cur[k].cursor.hash2 = 0

\* The components of an entry that is present: the tag and the hash of each
\* pointer of a PtrVec, the field element and the pointer of an FPtr, the
\* two field elements of an FPair.
EntryComponents(d) ==
  CASE d.k = "PtrVec" ->
         [i \in 1..(2 * Len(d.ptrs)) |->
            IF i % 2 = 1 THEN d.ptrs[(i + 1) \div 2].tag ELSE d.ptrs[i \div 2].hash]
    [] d.k = "FPtr" -> <<d.f, d.ptrs[1].tag, d.ptrs[1].hash>>
    [] d.k = "FPair" -> <<d.f, d.g>>

\* The image of a preimage by the rule of the slot type.
ImageRule(typ, vals) ==
  IF typ = "less_than"
  THEN (IF is_negative(FSub(vals[1], vals[2])) THEN 1 ELSE 0)
  ELSE Poseidon(vals)

\* The slot types whose slots synthesize has allocated.
SlotsAllocated ==
  { j \in DOMAIN SlotTypes :
      syn.pc = "done" \/ \E k \in j..Len(SlotTypes) : syn.pc = SlotTypes[k] }

\* C16: allocate_slots returns one (preimage, image) pair for every entry, in
\* the order of the entries: the preimage witnesses the entry's components,
\* or as many zeros as the slot type's preimage has when the entry is absent,
\* and the image is that preimage's image by the slot type's rule.
C16_SlotPairs ==
  \A j \in SlotsAllocated :
    LET typ == SlotTypes[j]
        slots == syn.st.slots[typ]
        data == syn.frame.preimages[typ]
    IN /\ Len(slots) = syn.func.slot[typ]
       /\ \A i \in DOMAIN slots :
            LET vals == [c \in DOMAIN slots[i].preimg |-> slots[i].preimg[c].v]
            IN /\ vals = IF data[i].k = "Some" THEN EntryComponents(data[i].v)
                         ELSE [c \in 1..preimg_size(typ) |-> 0]
               /\ slots[i].img.v = ImageRule(typ, vals)

\* The two hash2 slots of a Func have been allocated, the first from an
\* entry and the second from none.
C16_Witness ==
  /\ syn.pc = "hash2"
  /\ syn.func.name = "cons"
  /\ syn.frame.preimages.hash2 = <<Some(PtrVec(<<N0, N1>>)), None>>
  /\ Len(syn.st.slots.hash2) = 2
  /\ Len(syn.st.slots.hash2[2].preimg) = 4
  /\ syn.st.slots.hash2[1].preimg[4].v = 1
  /\ syn.st.slots.hash2[2].img.v = Poseidon(<<0, 0, 0, 0>>)

\* C17: a Call on a concrete path takes the entry at the front of the queue
\* of call outputs before the body of the callee is entered, and binds its
\* output variables to it; a Call on a virtual path leaves the queue alone
\* and binds every output variable to Nil with hash zero; either way the
\* body is entered with the call's not_dummy and slot counter.
C17_CallOutputs ==
  \A i \in DOMAIN syn.st.calls :
    (syn.st.calls[i].what = "call" /\ i + 1 \in DOMAIN syn.st.calls)
      => LET c == syn.st.calls[i]
             b == syn.st.calls[i + 1]
         IN /\ b.what = "body"
            /\ b.not_dummy = c.not_dummy
            /\ b.cursor = c.cursor
            /\ c.not_dummy => /\ c.queue # <<>>
                              /\ b.queue = Tail(c.queue)
                              /\ b.out = Head(c.queue)
            /\ ~c.not_dummy => /\ b.queue = c.queue
                               /\ b.out # <<>>
                               /\ \A k \in DOMAIN b.out : b.out[k] = Nil0

\* Two calls have been synthesized, the first on a virtual path with a
\* nonempty queue and a slot counter that had advanced, the second on the
\* concrete path.
C17_Witness ==
  /\ syn.pc = "done"
  /\ syn.func.name = "callif"
  /\ Len(syn.st.calls) = 4
  /\ ~syn.st.calls[1].not_dummy
  /\ syn.st.calls[1].queue = <<<<N1>>>>
  /\ syn.st.calls[1].cursor.hash2 = 1
  /\ syn.st.calls[2].out = <<Nil0>>
  /\ syn.st.calls[3].not_dummy
  /\ syn.st.calls[4].queue = <<>>
  /\ syn.st.calls[4].out = <<N1>>

\* The calls whose bodies enclose the block of namespace ns.
CallsAround(ns) == { c \in DOMAIN ns : ns[c].l = "Call" }

\* The output targets of the invocation that encloses the block of namespace
\* ns: the frame's outputs at top level, and inside an inlined call the
\* pointers bound to that call's output variables.
OutputTargets(ns) ==
  IF CallsAround(ns) = {} THEN syn.frame.output
  ELSE LET c == CHOOSE c \in CallsAround(ns) : \A d \in CallsAround(ns) : d <= c
           bodies == SelectSeq(syn.st.calls, LAMBDA e : e.what = "body")
       IN bodies[ns[c].i].out

\* The constraints of the i-th returned variable of the return r.
ReturnConstraints(r, i) ==
  { e \in DOMAIN syn.st.ev :
      syn.st.ev[e].name = Append(r.ns, Nm("implies_ptr_equal", r.vars[i], i - 1, 0)) }

\* C18: the constraints of a Return on a concrete path hold exactly when the
\* i-th returned variable's tag and hash are those of the i-th output target
\* of the enclosing invocation; those of a Return on a virtual path hold
\* whatever the returned pointers are.
C18_ReturnTargets ==
  syn.pc = "done"
    => \A k \in DOMAIN syn.st.rets :
         LET r == syn.st.rets[k]
         IN \A i \in DOMAIN r.vars :
              /\ Cardinality(ReturnConstraints(r, i)) = 1
              /\ \A e \in ReturnConstraints(r, i) :
                   /\ syn.st.ev[e].k = "implies_ptr_equal"
                   /\ syn.st.ev[e].n = 2
                   /\ syn.st.ev[e].sat
                        <=> (r.not_dummy => r.vals[i] = OutputTargets(r.ns)[i])

\* A Return inside an inlined call and on a virtual path has returned a
\* pointer that is not the call's output, and its constraints hold; the
\* Return of the concrete block does not match the frame's output, and its
\* constraints do not.
C18_Witness ==
  /\ syn.pc = "done"
  /\ syn.func.name = "callif"
  /\ \E k \in DOMAIN syn.st.rets :
       LET r == syn.st.rets[k]
       IN /\ ~r.not_dummy
          /\ CallsAround(r.ns) # {}
          /\ r.vals[1] # OutputTargets(r.ns)[1]
          /\ \A e \in ReturnConstraints(r, 1) : syn.st.ev[e].sat
  /\ \E k \in DOMAIN syn.st.rets :
       LET r == syn.st.rets[k]
       IN /\ r.not_dummy
          /\ CallsAround(r.ns) = {}
          /\ \A e \in ReturnConstraints(r, 1) : ~syn.st.ev[e].sat

\* C19: on a virtual path DivRem64 witnesses div = 0 and rem = a for every a
\* and b, a zero b and an a wider than 64 bits included, without a division,
\* and that assignment satisfies the emitted constraints: the identity
\* a = b * div + rem, and the three implications, which are not in force.
C19_VirtualDivRem ==
  (dr.pc \in {"witnessed", "panic"} /\ ~dr.not_dummy)
    => /\ dr.pc = "witnessed"
       /\ dr.div = F_ZERO
       /\ dr.rem = dr.a
       /\ enforce_product_and_sum_holds(dr.b, dr.div, dr.rem, dr.a)
       /\ DivRem64Holds(dr.a, dr.b, dr.div, dr.rem, dr.not_dummy)

\* The virtual witness of an a wider than 64 bits and a zero b.
C19_Witness ==
  /\ dr.pc = "witnessed"
  /\ ~dr.not_dummy
  /\ dr.b = 0
  /\ dr.a = U64_RANGE + 1
  /\ dr.rem = U64_RANGE + 1
  /\ dr.div = 0

\* The division gadgets of the synthesis all have an invertible divisor.
DivisionsSatisfied(st) == \A i \in DOMAIN st.ev : st.ev[i].k = "div" => st.ev[i].sat

\* C20: Div never fails on a zero divisor: the synthesis of Func div, on a
\* frame with as many preimages as the Func has slots, ends without an error
\* for every a and b; with b = 0 the gadget divides by the constant 1 and the
\* bound quotient is a, with b # 0 the bound quotient q has q * b = a in the
\* field; the result is tagged Num in both cases.
C20_DivTotal ==
  (/\ syn.func.name = "div"
   /\ CountsMatch(syn.func, syn.frame)
   /\ syn.pc \in {"done", "panicked", "failed"})
    => /\ syn.pc = "done"
       /\ DivisionsSatisfied(syn.st)
       /\ syn.st.bound["t"].tag.v = TagField.Num
       /\ LET a == syn.frame.input[1].hash
              b == syn.frame.input[2].hash
              q == syn.st.bound["t"].hash.v
          IN /\ b = 0 => q = a
             /\ b # 0 => FMul(q, b) = a

\* Func div has been synthesized with a = 2 and a zero b, and t is bound to 2.
C20_Witness ==
  /\ syn.pc = "done"
  /\ syn.func.name = "div"
  /\ syn.frame.input = <<N2, N0>>
  /\ syn.st.bound["t"].hash.v = 2
  /\ syn.st.bound["t"].tag.v = TagField.Num
  /\ DivisionsSatisfied(syn.st)

(***************************************************************************)
(* Op::Trunc on its own: an operand a and a width n, synthesized in a      *)
(* context that binds a.                                                   *)
(***************************************************************************)
MaxTruncValue == 6

\* Small values, the ends of the u64 range, and elements wider than u64.
TruncValues ==
  (0..MaxTruncValue)
    \cup {U64_RANGE - 2, U64_RANGE - 1, U64_RANGE, U64_RANGE + 1, U64_RANGE + 5,
          MODULUS - 2, MODULUS - 1}

\* The widths: every accepted one, and two that the assertion rejects.
TruncWidths == 0..(TRUNC_MAX_BITS + 2)

TruncOthers == <<fld, cache, sel, dr, syn, pair, vp, sl>>

TruncInit ==
  /\ \E a \in TruncValues, n \in TruncWidths, nd \in BOOLEAN :
       tr = [pc |-> "op", a |-> a, n |-> n, not_dummy |-> nd,
             st |-> Bind(NewContext(<<>>), "a",
                         APtr(ANum(0, TagField.Num), ANum(1, a)))]
  /\ fld = Idle /\ cache = Idle /\ sel = Idle /\ dr = Idle /\ syn = Idle /\ pair = Idle /\ vp = Idle /\ sl = Idle

\* recurse meets Op::Trunc(t, a, n).
TruncSynthesize ==
  /\ tr.pc = "op"
  /\ LET st == OpTrunc(tr.st, Op_Trunc("t", "a", tr.n), tr.not_dummy, <<>>)
     IN tr' = [tr EXCEPT !.pc = SynAt(st, "bound"), !.st = st]
  /\ UNCHANGED TruncOthers

TruncNext == TruncSynthesize

SpecTrunc == TruncInit /\ [][TruncNext]_vars

\* The strict bit decomposition of a field element, least significant first.
StrictBits(f) == [i \in 1..REPR_LEN |-> (f \div Pow(2, i - 1)) % 2 = 1]

\* C21: for every n up to the width of a u64, Trunc binds a Num whose value is
\* the operand's canonical integer modulo 2^n (0 for n = 0), that value is the
\* packing of the first n bits of the strict decomposition, and every
\* constraint holds; a wider n is rejected by the assertion.
C21_TruncLowBits ==
  tr.pc # "op"
    => IF tr.n > TRUNC_MAX_BITS
       THEN tr.pc = "panicked"
       ELSE /\ tr.pc = "bound"
            /\ tr.st.bound["t"].tag.v = TagField.Num
            /\ tr.st.bound["t"].hash.v = tr.a % Pow(2, tr.n)
            /\ tr.st.bound["t"].hash.v = PackBits(SubSeq(StrictBits(tr.a), 1, tr.n))
            /\ Satisfied(tr.st)

\* An operand wider than a u64 has been truncated to three bits.
C21_Witness ==
  /\ tr.pc = "bound"
  /\ tr.a = U64_RANGE + 5
  /\ tr.n = 3
  /\ tr.st.bound["t"].hash.v = 5
  /\ Satisfied(tr.st)

(***************************************************************************)
(* One block on its own: a slot-reading op and a Return, processed with    *)
(* not_dummy true or false in a context whose bound operands, slots and    *)
(* output pointer hold values that need not agree.                         *)
(***************************************************************************)
MaxVirtValue == 1

VirtValues == 0..MaxVirtValue

\* The ops whose constraints are implications of not_dummy.
VirtOps ==
  <<Op_Hash2("h", TagField.Cons, <<"a", "b">>),
    Op_Hash3("h", TagField.Fun, <<"a", "b", "a">>),
    Op_Hash4("h", TagField.Thunk, <<"a", "b", "a", "b">>),
    Op_Unhash2(<<"x", "y">>, "a"),
    Op_Unhash3(<<"x", "y", "z">>, "a"),
    Op_Unhash4(<<"x", "y", "z", "w">>, "a"),
    Op_Lt("l", "a", "b"),
    Op_Hide("c", "a", "b"),
    Op_Open("s", "p", "a")>>

\* One preallocated slot of a type: a preimage that starts at s and an image.
VirtSlot(typ, s, img) ==
  [preimg |-> [i \in 1..preimg_size(typ) |-> ANum(0, (s + i) % (MaxVirtValue + 1))],
   img |-> ANum(0, img)]

VirtContext(a, b, s, img) ==
  [Bind(Bind(NewContext(<<>>), "a", APtr(ANum(0, a[1]), ANum(0, a[2]))),
        "b", APtr(ANum(0, b[1]), ANum(0, b[2])))
     EXCEPT !.slots = [t \in DOMAIN @ |-> <<VirtSlot(t, s, img)>>]]

VirtOthers == <<fld, cache, sel, dr, syn, pair, tr, sl>>

VirtInit ==
  /\ \E i \in DOMAIN VirtOps, nd \in BOOLEAN, a \in VirtValues \X VirtValues,
        b \in VirtValues \X VirtValues, s \in VirtValues, img \in VirtValues :
       vp = [pc |-> "block", op |-> VirtOps[i], not_dummy |-> nd, typ |-> "none",
             out |-> APtr(ANum(0, s), ANum(0, img)),
             st |-> VirtContext(a, b, s, img)]
  /\ fld = Idle /\ cache = Idle /\ sel = Idle /\ dr = Idle /\ syn = Idle /\ pair = Idle /\ tr = Idle /\ sl = Idle

\* recurse on the block of the op and a Return of a.
VirtRecurse ==
  /\ vp.pc = "block"
  /\ LET st == recurse(vp.st, Block(<<vp.op>>, Ctrl_Return(<<"a">>)), vp.not_dummy,
                       <<vp.out>>, <<>>)
     IN vp' = [vp EXCEPT !.pc = SynAt(st, "done"), !.st = st]
  /\ UNCHANGED VirtOthers

\* hash_helper! or unhash_helper! expanded for the op with a slot type, any
\* of the five.
VirtHelper ==
  /\ vp.pc = "block"
  /\ vp.op.op \in {"Hash2", "Hash3", "Hash4", "Unhash2", "Unhash3", "Unhash4"}
  /\ \E i \in DOMAIN SlotTypes :
       LET st == IF vp.op.op \in {"Hash2", "Hash3", "Hash4"}
                 THEN hash_helper(vp.st, vp.op, vp.not_dummy, <<>>, SlotTypes[i])
                 ELSE unhash_helper(vp.st, vp.op, vp.not_dummy, <<>>, SlotTypes[i])
       IN vp' = [vp EXCEPT !.pc = SynAt(st, "expanded"), !.st = st, !.typ = SlotTypes[i]]
  /\ UNCHANGED VirtOthers

VirtNext == VirtRecurse \/ VirtHelper

SpecVirt == VirtInit /\ [][VirtNext]_vars

\* The implications of not_dummy among the constraints of a context.
Implications(st) ==
  {i \in DOMAIN st.ev : st.ev[i].k \in {"implies_equal", "implies_ptr_equal"}}

\* C22: in a block processed with not_dummy false, every constraint emitted
\* by Hash2/3/4, Unhash2/3/4, Lt, Hide, Open and Return is satisfied whatever
\* the bound operands and the slots hold, and the block is processed to its
\* end.
C22_VirtualSatisfied ==
  (vp.pc # "block" /\ vp.typ = "none" /\ ~vp.not_dummy)
    => /\ vp.pc = "done"
       /\ Implications(vp.st) # {}
       /\ Satisfied(vp.st)

\* A virtual Hash2 whose operands differ from the slot's preimage.
C22_Witness ==
  /\ vp.pc = "done"
  /\ ~vp.not_dummy
  /\ vp.op.op = "Hash2"
  /\ vp.st.bound["a"].tag.v # vp.st.slots["hash2"][1].preimg[1].v
  /\ Cardinality(Implications(vp.st)) = 5
  /\ Satisfied(vp.st)

(***************************************************************************)
(* Malformed pairings of a Func and a Frame: synthesize calls together     *)
(* with the expansions of the hash macros.                                 *)
(***************************************************************************)
MalformedNext == Next \/ VirtNext

SpecMalformed == (SynInit \/ VirtInit) /\ [][MalformedNext]_vars

\* The slot types synthesize has allocated when it stands at pc.
AllocatedAt(pc) ==
  CASE pc = "hash2" -> {"hash2"}
    [] pc = "hash3" -> {"hash2", "hash3"}
    [] pc = "hash4" -> {"hash2", "hash3", "hash4"}
    [] pc = "commitment" -> {"hash2", "hash3", "hash4", "commitment"}
    [] pc \in {"less_than", "done", "failed"} ->
         {"hash2", "hash3", "hash4", "commitment", "less_than"}
    [] OTHER -> {}

\* A preimage-count mismatch: synthesize never gets past the allocation of
\* the slots of that type, and it leaves by the panic of the assertion.
MismatchPanics ==
  /\ \A t \in AllocatedAt(syn.pc) : Len(syn.frame.preimages[t]) = syn.func.slot[t]
  /\ (syn.pc = "panicked" /\ ~CountsMatch(syn.func, syn.frame))
       => syn.st.err = "panic: collected preimages not equal to the number of available slots"

\* A Call met on the concrete path with an empty queue, or with an entry of
\* another length than the one output of the call.
MissingCallOutput(e) ==
  /\ e.what = "call"
  /\ e.not_dummy
  /\ \/ e.queue = <<>>
     \/ Len(Head(e.queue)) # 1

\* Such a Call is the last thing synthesize does: it panics there.
MissingOutputPanics ==
  \A i \in DOMAIN syn.st.calls :
    MissingCallOutput(syn.st.calls[i])
      => /\ syn.pc = "panicked"
         /\ i = Len(syn.st.calls)
         /\ syn.st.err \in {"panic: unwrap on None", "panic: assert_eq"}

\* A hash macro given another slot type than Hash2/3/4 panics before it adds
\* a constraint or binds a variable.
InvalidSlotTypePanics ==
  (vp.pc # "block" /\ vp.typ \notin HashSlotTypes \cup {"none"})
    => /\ vp.pc = "panicked"
       /\ vp.st.ev = <<>>
       /\ DOMAIN vp.st.bound = {"a", "b"}

MalformedHalts ==
  /\ syn # Idle => MismatchPanics /\ MissingOutputPanics
  /\ vp # Idle => InvalidSlotTypePanics

\* C23: a preimage-count mismatch, a slot type other than Hash2/3/4 given to
\* a hash or unhash macro, and a concrete Call that finds the queue of call
\* outputs empty or its entry of the wrong length each end in a panic, never
\* in an Err or a finished synthesis, and nothing is done after the panic.
C23_MalformedHalts ==
  [][/\ syn.pc # "panicked"
     /\ vp.pc # "panicked"
     /\ MalformedHalts']_vars

\* A concrete Call has found the queue of the call outputs empty.
C23_Witness ==
  /\ syn # Idle
  /\ syn.pc = "panicked"
  /\ syn.func.name = "call"
  /\ syn.st.err = "panic: unwrap on None"
  /\ syn.st.calls # <<>>
  /\ MissingCallOutput(syn.st.calls[Len(syn.st.calls)])

\* C24: most_positive is (0 - 1) / 2 and is not negative, most_negative is
\* most_positive + 1 and is negative, zero is not negative, an element is
\* negative exactly when its integer value exceeds most_positive, and of a
\* nonzero x and -x exactly one is negative.
C24_SignedHalves ==
  /\ 2 * most_positive = MODULUS - 1
  /\ most_negative = most_positive + 1
  /\ ~is_negative(most_positive)
  /\ is_negative(most_negative)
  /\ ~is_negative(F_ZERO)
  /\ fld.pc = "signed"
       => /\ fld.res <=> fld.f > most_positive
          /\ fld.f # F_ZERO => (fld.res <=> fld.x = 0)

\* is_negative has been applied to most_negative and to its negation.
C24_Witness ==
  /\ fld.pc = "signed"
  /\ fld.f = most_negative
  /\ fld.res = TRUE
  /\ fld.f2 = most_positive
  /\ fld.x = 0

\* The namespace of the block that made a slot read: the read's place
\* without the op.
BlockOf(e) == SubSeq(e.at, 1, Len(e.at) - 1)

\* The namespaces of the blocks of a control's branches.
BranchLabels == {"if_eq.true", "if_eq.false", "case", "_"}

\* Two blocks are on sibling branches when their namespaces part at two
\* branches of one control; a block and a block under it, and blocks that
\* part at a Call, are on one path.
Siblings(n1, n2) ==
  \E k \in 1..Len(n1) :
    /\ k <= Len(n2)
    /\ SubSeq(n1, 1, k - 1) = SubSeq(n2, 1, k - 1)
    /\ n1[k] # n2[k]
    /\ n1[k].l \in BranchLabels
    /\ n2[k].l \in BranchLabels

\* C25: of two slot reads of one type that are not on sibling branches, the
\* later reads a greater index; so only reads on sibling branches share one.
C25_PathIndicesDistinct ==
  syn.pc \in {"done", "panicked", "failed"}
    => \A i, j \in DOMAIN syn.st.log :
         LET e1 == syn.st.log[i]
             e2 == syn.st.log[j]
         IN (i < j /\ e1.typ = e2.typ)
              => IF Siblings(BlockOf(e1), BlockOf(e2))
                 THEN TRUE
                 ELSE e1.idx < e2.idx

\* Func paths: the conses of a path read the slots 0, 1, 2 in order, and the
\* cons of the else block shares the slot 1 with a cons of the sibling block.
C25_Witness ==
  /\ syn.pc = "done"
  /\ syn.func.name = "paths"
  /\ Len(syn.st.log) = 5
  /\ [i \in 1..5 |-> syn.st.log[i].idx] = <<0, 1, 2, 1, 2>>
  /\ Siblings(BlockOf(syn.st.log[2]), BlockOf(syn.st.log[4]))
  /\ ~Siblings(BlockOf(syn.st.log[4]), BlockOf(syn.st.log[5]))

\* The slot type an op reads, "" for an op that reads none.
SlotTypeOf(op) ==
  CASE op.op \in {"Hash2", "Unhash2"} -> "hash2"
    [] op.op \in {"Hash3", "Unhash3"} -> "hash3"
    [] op.op \in {"Hash4", "Unhash4"} -> "hash4"
    [] op.op \in {"Hide", "Open"} -> "commitment"
    [] op.op = "Lt" -> "less_than"
    [] OTHER -> ""

\* The sums of a counter of one set and a counter of the other.
CounterSums(as, bs) ==
  {[t \in DOMAIN SlotsCounterDefault |-> a[t] + b[t]] : a \in as, b \in bs}

\* The numbers of slot-reading ops, by type, on the paths of a block from its
\* start to a Return, the bodies of the callees in place of the calls: one
\* counter for every path.
RECURSIVE PathCounts(_)
RECURSIVE OpsPathCounts(_, _)
RECURSIVE CasesPathCounts(_)

OpsPathCounts(ops, counts) ==
  IF ops = <<>> THEN counts
  ELSE LET op == Head(ops)
       IN OpsPathCounts(
            Tail(ops),
            IF op.op = "Call" THEN CounterSums(counts, PathCounts(op.func.body))
            ELSE IF SlotTypeOf(op) = "" THEN counts
            ELSE {[c EXCEPT ![SlotTypeOf(op)] = @ + 1] : c \in counts})

CasesPathCounts(cases) ==
  IF cases = <<>> THEN {}
  ELSE PathCounts(Head(cases).block) \cup CasesPathCounts(Tail(cases))

PathCounts(block) ==
  LET ops == OpsPathCounts(block.ops, {SlotsCounterDefault})
      ctrl == block.ctrl
  IN CASE ctrl.ctrl = "Return" -> ops
       [] ctrl.ctrl = "IfEq" ->
            CounterSums(ops, PathCounts(ctrl.eq_block) \cup PathCounts(ctrl.else_block))
       [] OTHER ->
            CounterSums(ops, CasesPathCounts(ctrl.cases)
                               \cup (IF ctrl.def.k = "Some" THEN PathCounts(ctrl.def.v)
                                     ELSE {}))

\* The most ops of a type on any one path of a block.
PathMax(block, typ) ==
  CHOOSE n \in {c[typ] : c \in PathCounts(block)} :
    \A c \in PathCounts(block) : c[typ] <= n

\* C26: when synthesize has traversed the body, the cursor of every slot type
\* is the most ops of that type on any one path of the body; the static count
\* of the Func is that number, and no op has read a slot at or beyond it.
C26_CursorIsPathMax ==
  syn.pc = "done"
    => \A t \in DOMAIN syn.st.next_slot :
         /\ syn.st.next_slot[t] = PathMax(syn.func.body, t)
         /\ syn.func.slot[t] = PathMax(syn.func.body, t)
         /\ \A i \in DOMAIN syn.st.log :
              syn.st.log[i].typ = t => syn.st.log[i].idx < syn.func.slot[t]

\* Func paths has been traversed: its paths hold one, three, two and three
\* conses, and the cursor of Hash2 is three.
C26_Witness ==
  /\ syn.pc = "done"
  /\ syn.func.name = "paths"
  /\ {c["hash2"] : c \in PathCounts(syn.func.body)} = {2, 3}
  /\ syn.st.next_slot["hash2"] = 3
  /\ \E i \in DOMAIN syn.st.log : syn.st.log[i].idx = 2

\* The blocks of the branches of the control of the block at ns: their
\* not_dummy values are the selectors the control allocated.
BranchesOf(st, ns) ==
  {i \in DOMAIN st.blocks :
     /\ Len(st.blocks[i].ns) = Len(ns) + 1
     /\ SubSeq(st.blocks[i].ns, 1, Len(ns)) = ns
     /\ st.blocks[i].ns[Len(ns) + 1].l \in BranchLabels}

\* The blocks whose not_dummy is true.
ConcreteBlocks(st) == {i \in DOMAIN st.blocks : st.blocks[i].not_dummy}

\* C27: in a block whose not_dummy is false every selector of its control is
\* false, in a block whose not_dummy is true at most one is true; so the
\* blocks with a true not_dummy lie on one path from the root: the root is
\* one of them, no two of them are on sibling branches, and every block
\* above one of them is one of them.
C27_SelectorsPropagate ==
  (syn.pc = "done")
    => /\ \A i \in DOMAIN syn.st.blocks :
            LET b == syn.st.blocks[i]
                chosen == BranchesOf(syn.st, b.ns) \cap ConcreteBlocks(syn.st)
            IN IF b.not_dummy THEN Cardinality(chosen) <= 1 ELSE chosen = {}
       /\ syn.st.blocks[1].ns = <<>> /\ syn.st.blocks[1].not_dummy
       /\ \A i, j \in ConcreteBlocks(syn.st) :
            ~Siblings(syn.st.blocks[i].ns, syn.st.blocks[j].ns)
       /\ \A i \in DOMAIN syn.st.blocks, j \in ConcreteBlocks(syn.st) :
            LET n1 == syn.st.blocks[i].ns
                n2 == syn.st.blocks[j].ns
            IN (Len(n1) <= Len(n2) /\ SubSeq(n2, 1, Len(n1)) = n1)
                 => syn.st.blocks[i].not_dummy

\* Func paths with a = b: the else block is virtual and so are the cases of
\* the match in it, one of which is on the tag of b.
C27_Witness ==
  /\ syn.pc = "done"
  /\ syn.func.name = "paths"
  /\ syn.frame.input[1] = syn.frame.input[2]
  /\ syn.frame.input[2].tag = TagField.Num
  /\ Len(syn.st.blocks) = 5
  /\ Cardinality(ConcreteBlocks(syn.st)) = 2
  /\ \E i \in DOMAIN syn.st.blocks :
       /\ Len(syn.st.blocks[i].ns) = 2
       /\ ~syn.st.blocks[i].not_dummy

\* The integer an element stands for under the negativity convention: the
\* negative elements are the integers below zero.
Signed(f) == IF is_negative(f) THEN f - MODULUS ELSE f

\* C28: on the concrete path, with a and b in the slot that Lt reads, the
\* result bound by Lt is 1 exactly when a is less than b in the signed
\* order, and 0 otherwise, for every a and b.
C28_LtSignedOrder ==
  (/\ syn.pc = "done"
   /\ syn.func.name = "lt"
   /\ syn.frame.preimages.less_than[1].k = "Some"
   /\ syn.frame.preimages.less_than[1].v.f = syn.frame.input[1].hash
   /\ syn.frame.preimages.less_than[1].v.g = syn.frame.input[2].hash)
    => /\ syn.st.bound["l"].tag.v = TagField.Num
       /\ syn.st.bound["l"].hash.v =
            (IF Signed(syn.frame.input[1].hash) < Signed(syn.frame.input[2].hash)
             THEN 1 ELSE 0)

\* C29: the namespaces opened during one synthesize call, for allocations
\* and for constraints alike, have names that differ from one another, for
\* every Func and at every point of the call.
C29_NamesDistinct ==
  syn.pc # "start"
    => \A i, j \in DOMAIN syn.st.ev :
         i # j => syn.st.ev[i].name # syn.st.ev[j].name

(***************************************************************************)
(* allocate_slots taken alone: one slot type and one or two entries, each  *)
(* absent or present with any PreimageData variant and up to MaxPtrs       *)
(* pointers.                                                               *)
(***************************************************************************)
MaxPtrs == 3

SlotPtrs == {N0, C1}

SlotFields == {F_ZERO, F_ONE}

PtrSeqs == UNION {[1..n -> SlotPtrs] : n \in 0..MaxPtrs}

SlotEntries ==
  {None} \cup {Some(PtrVec(ptrs)) : ptrs \in PtrSeqs}
         \cup {Some(FPtr(f, ptr)) : f \in SlotFields, ptr \in SlotPtrs}
         \cup {Some(FPair(a, b)) : a \in SlotFields, b \in SlotFields}

\* The entry gives the slot as many components as its type takes.
ArityMatches(slot_type, preimg_data) ==
  \A i \in DOMAIN preimg_data :
    Len(PreimgComponents(preimg_data[i], slot_type)) = preimg_size(slot_type)

SlotsOthers == <<fld, cache, sel, dr, syn, pair, tr, vp>>

SlotsInit ==
  /\ \E i \in DOMAIN SlotTypes, n \in 1..2 :
       \E preimg_data \in [1..n -> SlotEntries] :
         sl = [pc |-> "frame", typ |-> SlotTypes[i], data |-> preimg_data,
               slots |-> <<>>]
  /\ fld = Idle /\ cache = Idle /\ sel = Idle /\ dr = Idle /\ syn = Idle /\ pair = Idle /\ tr = Idle /\ vp = Idle

\* allocate_slots on the entries.  hash_poseidon is outside the sources: on a
\* preimage that is not of its constants' arity it either panics or hashes
\* what it is given.
SlotsAllocate ==
  /\ sl.pc = "frame"
  /\ LET r == allocate_slots(NewContext(<<>>), sl.data, sl.typ, Len(sl.data))
     IN \E rejects \in (IF sl.typ # "less_than" /\ ~ArityMatches(sl.typ, sl.data)
                        THEN BOOLEAN ELSE {FALSE}) :
          sl' = IF rejects THEN [sl EXCEPT !.pc = "panicked"]
                ELSE [sl EXCEPT !.pc = SynAt(r.st, "allocated"), !.slots = r.slots]
  /\ UNCHANGED SlotsOthers

SlotsNext == SlotsAllocate

SpecSlots == SlotsInit /\ [][SlotsNext]_vars

\* C30: every (preimage, image) pair that allocate_slots returns has a
\* preimage of as many components as the slot type takes, the entry being
\* absent or present with any variant and any number of pointers.
C30_PreimageArity ==
  sl.pc = "allocated"
    => \A i \in DOMAIN sl.slots : Len(sl.slots[i].preimg) = preimg_size(sl.typ)
====
